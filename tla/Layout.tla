------------------------------- MODULE Layout -------------------------------
(***************************************************************************)
(* What the storage engine of libopheap-core keeps about a root: root      *)
(* names, serialized payloads and payload locators (detail/loc.hpp,        *)
(* detail/root_record.hpp).                                                *)
(*                                                                         *)
(* A payload is a sequence of bytes.  A root name is a natural number: the *)
(* only thing the engine asks of names is their order (ordered_roots sorts *)
(* the snapshot index by name).  The stable type tag of a root is left     *)
(* out: codec<value>::type_name is the only tag the engine ever writes.    *)
(***************************************************************************)
EXTENDS Integers, Sequences, FiniteSets

CONSTANTS Names,        \* the root names an application uses
          Payloads,     \* the serialized values an application writes
          NullPayload   \* the encoding of a null value, a new root's content

ASSUME NamesAssumption ==
    /\ Names \subseteq Nat
    /\ IsFiniteSet(Names)

ASSUME PayloadsAssumption ==
    /\ Payloads \subseteq Seq(Nat)
    /\ NullPayload \in Payloads
    /\ \A p \in Payloads : p # << >>

Bytes == Seq(Nat)

(* CRC32C, idealised: two byte strings have the same sum only if they are  *)
(* equal.                                                                  *)
Crc32c(bytes) == bytes

(* loc: where the payload of a root lives.  `at` is a byte offset in the   *)
(* snapshot file, or the position of a ROOT_UPDATE record in the journal.  *)
Loc == [kind : {"journal", "snapshot"}, at : Nat, size : Nat, sum : Bytes]

(* root_record.  Version 0 is a name that is not in the root index.        *)
RootRecord == [version : Nat, payload : Loc]

NoRoot ==
    [version |-> 0,
     payload |-> [kind |-> "snapshot", at |-> 0, size |-> 0, sum |-> << >>]]

NoRoots == [n \in Names |-> NoRoot]

Present(roots) == {n \in Names : roots[n].version > 0}
=============================================================================
