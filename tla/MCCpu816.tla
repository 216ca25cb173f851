------------------------------ MODULE MCCpu816 ------------------------------
(* An instance of Cpu816 for TLC. *)
EXTENDS Cpu816

SomeVectors == [c \in BOOLEAN \X (Kinds \cup {"reset"}) |-> IF c[2] = "reset" THEN 0 ELSE 1]
SomeMasks == {{"X", "M", "I"}}
=============================================================================
