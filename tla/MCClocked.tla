----------------------------- MODULE MCClocked -----------------------------
(***************************************************************************)
(* The devices that the main loop advances by an instruction's clocks: the *)
(* millisecond timer, a VIA's timers and VERA's beam; and VERA's ports to  *)
(* its memory.  They share no state (the guest's interrupt line is only    *)
(* their disjunction), so a behaviour exercises one of them, chosen at the *)
(* start, instead of all their interleavings.                              *)
(***************************************************************************)
EXTENDS MsTimer, ViaTimers, VeraBeam, VeraPorts

VARIABLE device

\* A copy down over its own source, whose destination wraps.
SomeBlits == {[src |-> 0, dst |-> 2, len |-> 2]}

Increments == {1, -1}

\* A reset leaves anything; the guest's stores lead from this to all contents.
SomeNoise == {[a \in 0 .. LoSize * HiSize - 1 |-> a % 2]}

ASSUME ClockedAssumption == ViaAssumption /\ BeamAssumption /\ PortsAssumption

allVars == <<device, vars, viaVars, beamVars, portVars>>

ClockedInit ==
    /\ device \in {"timer", "via", "beam", "ports"}
    /\ Init /\ ViaInit /\ BeamInit /\ PortsInit

ClockedNext ==
    \/ device = "timer" /\ Next /\ UNCHANGED <<viaVars, beamVars, portVars>>
    \/ device = "via" /\ ViaNext /\ UNCHANGED <<vars, beamVars, portVars>>
    \/ device = "beam" /\ BeamNext /\ UNCHANGED <<vars, viaVars, portVars>>
    \/ device = "ports" /\ PortsNext /\ UNCHANGED <<vars, viaVars, beamVars>>

ClockedSpec == ClockedInit /\ [][ClockedNext /\ UNCHANGED device]_allVars
=============================================================================
