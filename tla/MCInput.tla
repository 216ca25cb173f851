------------------------------ MODULE MCInput ------------------------------
(***************************************************************************)
(* What the user holds: keys and the mouse, through the SMC, and game      *)
(* controllers, through a VIA's port.  They share no state and are checked *)
(* one at a time, chosen at the start.                                     *)
(***************************************************************************)
EXTENDS SmcInput, Joysticks

VARIABLE way

\* The mouse report offset and the mouse id register; each is also a value, and
\* asks for the device of the three-byte report.
MCBytes == {33, CmdSetId}

ASSUME JoyOk == JoyAssumption

InputInit ==
    /\ way \in {"smc", "joy"}
    /\ Init /\ JoyInit
    /\ way # "smc" => polite
    /\ IF way = "joy" THEN connected # {} ELSE connected = {} /\ enabled = Slots
    /\ 1 \in enabled

InputNext ==
    \/ way = "smc" /\ Next /\ UNCHANGED joyVars
    \/ way = "joy" /\ JoyNext /\ UNCHANGED vars

InputSpec == InputInit /\ [][InputNext /\ UNCHANGED <<way, polite>>]_<<way, vars, joyVars>>
=============================================================================
