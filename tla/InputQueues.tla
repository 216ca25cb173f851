---------------------------- MODULE InputQueues ----------------------------
(***************************************************************************)
(* What the input path promises, without rings, indices and registers: two *)
(* bounded queues between the host and the guest.  Key codes come out in   *)
(* the order they went in, one that finds no room is dropped; mouse reports*)
(* go in whole or not at all and come out byte by byte.  A queue empties   *)
(* only by being read, by a reset or, for the mouse, by a new device id.   *)
(***************************************************************************)
EXTENDS Integers, Sequences

CONSTANTS Code,                 \* the key codes there are
          KbdRoom, MseRoom      \* bytes each queue can hold

VARIABLES keys,     \* key codes waiting for the guest
          bytes,    \* report bytes waiting, each its number within its report
          size      \* bytes in a report of the current device

Init == keys = <<>> /\ bytes = <<>> /\ size = 4

KeyIn(code) ==
    /\ Len(keys) < KbdRoom
    /\ keys' = Append(keys, code)
    /\ UNCHANGED <<bytes, size>>

KeyOut ==
    /\ keys # <<>>
    /\ keys' = Tail(keys)
    /\ UNCHANGED <<bytes, size>>

\* n whole reports, one after the other.
Reports(n) == [i \in 1 .. n * size |-> ((i - 1) % size) + 1]

ReportsIn(n) ==
    /\ Len(bytes) + n * size <= MseRoom
    /\ bytes' = bytes \o Reports(n)
    /\ UNCHANGED <<keys, size>>

ByteOut ==
    /\ bytes # <<>>
    /\ bytes' = Tail(bytes)
    /\ UNCHANGED <<keys, size>>

NewDevice(s) ==
    /\ bytes' = <<>>
    /\ size' = s
    /\ UNCHANGED keys

Reset ==
    /\ keys' = <<>>
    /\ bytes' = <<>>
    /\ UNCHANGED size

Next ==
    \/ \E code \in Code : KeyIn(code)
    \/ KeyOut
    \/ \E n \in 1 .. MseRoom : ReportsIn(n)
    \/ ByteOut
    \/ \E s \in {3, 4} : NewDevice(s)
    \/ Reset

Spec == Init /\ [][Next]_<<keys, bytes, size>>
=============================================================================
