------------------------------- MODULE MCLoop -------------------------------
(***************************************************************************)
(* What the emulator's loop does besides running the machine: the frames,  *)
(* the NVRAM's file and the ways out; and the text that -autokeys types    *)
(* into the SMC.  They share no state and are checked one at a time,       *)
(* chosen at the start.                                                    *)
(***************************************************************************)
EXTENDS MainLoop, AutoKeys

VARIABLE work

\* Texts of both layers, with an escaped Enter, a backslash that escapes
\* nothing, and a character of no key before another.
SomeLetters == {"a", "A", "\\", "n", "enter", "bell"}
SomeTexts ==
    {<<"a", "bell", "A", "a">>, <<"A", "\\", "n", "A">>, <<"\\", "a", "enter">>, <<"A", "A">>}

ASSUME LoopAssumption == MainAssumption

allVars == <<work, vars, autoVars>>

LoopInit ==
    /\ work \in {"frames", "auto"}
    /\ Init /\ AutoInit
    /\ work # "frames" => warp_mode = FALSE
    /\ work # "auto" => whole_text = <<"A", "A">>

OfFrames(A) == work = "frames" /\ A /\ UNCHANGED <<work, autoVars>>
OfAuto(A) == work = "auto" /\ A /\ UNCHANGED <<work, vars>>

LoopNext == OfFrames(Next) \/ OfAuto(AutoNext)

\* The fairness of the two modules.
LoopFairness ==
    /\ WF_allVars(OfFrames(Run))
    /\ WF_allVars(OfAuto(autokeys_step)) /\ WF_allVars(OfAuto(GuestReads))

LoopSpec == LoopInit /\ [][LoopNext]_allVars /\ LoopFairness

-----------------------------------------------------------------------------
\* AutoKeys: the guest reads all of the text at last, characters of no key
\* passed over, and then no key stays held, unless something of it was lost
\* (autokeys_step, called after every instruction).
TextArrives == work = "auto" => TypingArrives
=============================================================================
