------------------------------ MODULE MCStorage ------------------------------
(***************************************************************************)
(* Disks: the SD block device and its card, the compressed image it may be *)
(* kept in, and the host's files as a Commodore disk drive.  They share no *)
(* state; a behaviour exercises one of them, chosen at the start.          *)
(***************************************************************************)
EXTENDS MCHostFs, SdBlock, GzFile

VARIABLE part

ASSUME StorageAssumption == SdAssumption /\ GzAssumption

StorageInit ==
    /\ part \in {"blocks", "image", "files"}
    /\ Init /\ SdInit /\ GzInit
    /\ part # "blocks" => img = "none"
    /\ part # "image" => writable /\ \A b \in 1 .. ImageBlocks : image[b] = 0

StorageNext ==
    \/ part = "files" /\ Next /\ UNCHANGED <<sdVars, gzVars>>
    \/ part = "blocks" /\ SdNext /\ UNCHANGED <<vars, gzVars>>
    \/ part = "image" /\ GzNext /\ UNCHANGED <<vars, sdVars>>

StorageSpec ==
    StorageInit
    /\ [][StorageNext /\ UNCHANGED part]_<<part, vars, sdVars, gzVars>>

=============================================================================
