------------------------------ MODULE MCGroups ------------------------------
(* A small instance of Groups for TLC: the phone and the laptop of one person *)
(* are in the group, the laptop holds the root, and bob may be added.         *)
EXTENDS GroupsInvariant

CONSTANTS phone, laptop, bob,  \* devices
          alice, robert        \* whose they are

OwnerIs == [d \in Device |-> IF d = bob THEN robert ELSE alice]
FirstPL == <<phone, laptop>>
=============================================================================
