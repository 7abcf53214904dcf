----------------------------- MODULE FileTransfer -----------------------------
(***************************************************************************)
(* What taking files from one checkout to another by way of an archive       *)
(* promises.  Files are packed as they were together at one moment; they are *)
(* all put into the other checkout at once, or none is; a verification that   *)
(* passes has found exactly them, together.                                  *)
(*                                                                         *)
(* The promise about putting them is only for a command that is left alone:  *)
(* while others write there, or when it is stopped by force, it is spoilt.    *)
(***************************************************************************)
EXTENDS Functions

CONSTANTS
    Paths,      \* where files may be
    Required,   \* the paths no archive may lack
    None        \* no archive

VARIABLES
    files,      \* what the checkout holds, once a restore under way is undone or complete
    stored,     \* the archive
    seen,       \* what the command has found in the checkout, at one moment
    job,        \* the command that runs, or how the last one ended
    spoilt      \* others wrote since it began, or it was stopped by force

transferVars == <<files, stored, seen, job, spoilt>>

Commands == {"pack", "restore", "verify"}
Over == job \in {"idle", "done", "failed"}

TransferInit == stored = None /\ job = "idle" /\ ~spoilt

Start(cmd) ==
    /\ Over /\ job' = cmd /\ spoilt' = FALSE
    /\ IsRestriction(seen', files)
    /\ UNCHANGED <<files, stored>>

Look ==
    /\ job \in {"pack", "verify"}
    /\ IsRestriction(seen', files)
    /\ UNCHANGED <<files, stored, job, spoilt>>

Pack ==
    /\ job = "pack" /\ Required \subseteq DOMAIN seen
    /\ stored' = seen /\ job' = "done"
    /\ UNCHANGED <<files, seen, spoilt>>

Verify ==
    /\ job = "verify" /\ seen = stored
    /\ job' = "done"
    /\ UNCHANGED <<files, stored, seen, spoilt>>

\* All files at once; the checks that follow cannot undo it.
Restore ==
    /\ job = "restore" /\ stored # None
    /\ job' = "restored"
    /\ files' = IF spoilt THEN files ELSE stored
    /\ UNCHANGED <<stored, seen, spoilt>>

Complete ==
    /\ job = "restored" /\ job' = "done"
    /\ UNCHANGED <<files, stored, seen, spoilt>>

Fail ==
    /\ ~Over /\ job' = "failed"
    /\ UNCHANGED <<files, stored, seen, spoilt>>

\* Killed, interrupted where nothing can be undone any more, or failing to undo
Break ==
    /\ ~Over /\ job' = "failed" /\ spoilt' = TRUE
    /\ job = "restore" \/ UNCHANGED files
    /\ UNCHANGED <<stored, seen>>

\* Somebody else writes or removes one file; a restore that is under way goes on in sight.
Meddle ==
    /\ spoilt' = TRUE
    /\ \/ job = "restore"
       \/ \E p \in Paths : \A q \in Paths \ {p} :
            /\ q \in DOMAIN files' <=> q \in DOMAIN files
            /\ q \in DOMAIN files => files'[q] = files[q]
    /\ UNCHANGED <<stored, seen, job>>

Struggle ==
    /\ job = "restore" /\ spoilt
    /\ UNCHANGED <<stored, seen, job, spoilt>>

\* Between commands: another checkout, files generated in it, the archive taken away
Prepare ==
    /\ Over /\ job' = "idle"
    /\ stored' \in {stored, None}

TransferNext ==
    \/ \E cmd \in Commands : Start(cmd)
    \/ Look \/ Pack \/ Verify \/ Restore \/ Complete \/ Fail \/ Break \/ Meddle \/ Struggle
    \/ Prepare

TransferSpec == TransferInit /\ [][TransferNext]_transferVars
=============================================================================
