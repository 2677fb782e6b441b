--------------------------------- MODULE IPAM ---------------------------------
(***************************************************************************)
(* The address allocator of pkg/ipam/ipam.go.  An address is its offset in *)
(* the subnet: 0 is the network address and Size - 1 the broadcast address.*)
(* Every method of the code holds m.mu throughout, so each is one action;  *)
(* an action's last parameter is the address it returns or is given.       *)
(***************************************************************************)
EXTENDS Naturals

CONSTANTS
  Nodes,     \* node IDs
  Size,      \* number of addresses of the subnet
  Gateway    \* offset of the gateway

\* NewIPAM refuses subnets smaller than a /30 and gateways outside the subnet.
ASSUME SubnetAssumption ==
  /\ Size \in Nat
  /\ Size >= 4
  /\ Gateway \in 0..(Size - 1)

VARIABLES
  allocated,   \* allocated[n]: the address of node n, or NoAddr
  nextHost     \* the offset at which the next search starts

ipamVars == <<allocated, nextHost>>

\* "No address": the offset of the network address, which is never assigned.
NoAddr == 0

Usable == (1..(Size - 2)) \ {Gateway}

IPAMInit ==
  /\ allocated = [n \in Nodes |-> NoAddr]
  /\ nextHost = 1

Free == {x \in Usable : \A n \in Nodes : allocated[n] # x}

\* Mutant: the search does not look at the addresses other nodes hold.
FirstFreeIgnoresUsed(x) ==
  /\ x \in Usable
  /\ \/ x >= nextHost /\ \A y \in Usable : y >= nextHost => x <= y
     \/ x < nextHost /\ \A y \in Usable : y < nextHost /\ x <= y

\* Mutant: the search runs up to and including the broadcast address.
FirstFreeBroadcast(x) ==
  LET Candidates == Free \cup ({Size - 1} \ {Gateway}) IN
  /\ x \in Candidates
  /\ \/ x >= nextHost /\ \A y \in Candidates : y >= nextHost => x <= y
     \/ x < nextHost /\ \A y \in Candidates : y < nextHost /\ x <= y

\* The two loops of Allocate: from nextHost up, then from 1 up to nextHost.
FirstFree(x) ==
  /\ x \in Free
  /\ \/ x >= nextHost /\ \A y \in Free : y >= nextHost => x <= y
     \/ x < nextHost /\ \A y \in Free : y < nextHost /\ x <= y

\* Mutant: the node's present address is not looked up first.
AllocateAfresh(n, x) ==
  /\ FirstFree(x)
  /\ allocated' = [allocated EXCEPT ![n] = x]
  /\ nextHost' = x + 1

\* Allocate returns x: the node's address if it has one, else a free one.
Allocate(n, x) ==
  \/ /\ allocated[n] # NoAddr
     /\ x = allocated[n]
     /\ UNCHANGED ipamVars
  \/ /\ allocated[n] = NoAddr
     /\ FirstFree(x)
     /\ allocated' = [allocated EXCEPT ![n] = x]
     /\ nextHost' = x + 1

\* Allocate returns the error "exhausted".
Exhausted(n) == allocated[n] = NoAddr /\ Free = {}

\* Reserve accepts a usable address that is the node's own or nobody's.
Reservable(n, x) ==
  /\ x \in Usable
  /\ allocated[n] \in {NoAddr, x}
  /\ \A m \in Nodes \ {n} : allocated[m] # x

Reserve(n, x) ==
  /\ Reservable(n, x)
  /\ allocated' = [allocated EXCEPT ![n] = x]
  /\ nextHost' = IF allocated[n] = NoAddr /\ x + 1 > nextHost /\ x + 1 < Size - 1
                   THEN x + 1 ELSE nextHost

Release(n) ==
  /\ allocated' = [allocated EXCEPT ![n] = NoAddr]
  /\ UNCHANGED nextHost

IPAMTypeOK ==
  /\ allocated \in [Nodes -> Usable \cup {NoAddr}]
  /\ nextHost \in 1..(Size - 1)

\* No address is held by two nodes.
AddressesUnique ==
  \A m, n \in Nodes :
    m # n /\ allocated[m] # NoAddr => allocated[m] # allocated[n]
===============================================================================
