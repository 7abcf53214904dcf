----------------------- MODULE SiteDataArtifact_proofs -----------------------
(***************************************************************************)
(* Proofs about SiteDataArtifact, for every number of files, every content   *)
(* and any number of writes by others.                                      *)
(*                                                                         *)
(* None of the properties is inductive.  IInv says what each step of a      *)
(* command already knows: which files its snapshots still stand for, which    *)
(* it has replaced or put back, and which temporary files lie about.          *)
(***************************************************************************)
EXTENDS SiteDataArtifact, TLAPS

Early == {"state", "load", "again", "read", "stage", "unchanged"}

\* The steps that only some commands take, and what they have loaded
Attributed ==
    /\ proc.step \in {"again", "stage", "before", "replace", "mark", "verify", "final",
                      "rollback"} => Is("restore")
    /\ At("load") => ~Is("pack")
    /\ ~Is("restore") => ~proc.committed
    /\ ~Is("pack") /\ proc.step \notin {"idle", "state", "load", "failed", "killed"}
         => archive # NoArchive

\* A file whose fingerprint is the snapshot's holds the snapshot, now and, after the reads,
\* at the moment they ended; so does every file that has been looked at again.
Snapshots ==
    /\ \A f \in proc.same : tree[f] = proc.saw[f]
    /\ ~Is("restore") =>
         /\ proc.step \in {"unchanged", "finish", "done"} =>
              \A f \in proc.same : proc.moment[f] = proc.saw[f]
         /\ At("unchanged") => \A f \in Files : f < proc.i => proc.moment[f] = proc.saw[f]
         /\ proc.step \in {"finish", "done"} =>
              \A f \in Files : proc.moment[f] = proc.saw[f]
    /\ Is("verify") =>
         /\ At("read") => \A f \in Files : f < proc.i => proc.saw[f] = archive[f]
         /\ proc.step \in {"unchanged", "finish", "done"} =>
              \A f \in Files : proc.saw[f] = archive[f]
    /\ Is("pack") /\ At("done") => archive = proc.saw

\* The files a restore has replaced, whoever else writes
Replacing ==
    Is("restore") =>
        /\ proc.step \in Early => proc.ours = {} /\ ~proc.replaced
        /\ proc.step \in {"before", "replace"} =>
             /\ \A f \in proc.ours : f < proc.i
             /\ proc.replaced <=> proc.i > 1
        /\ At("mark") => /\ \A f \in proc.ours : f <= proc.i
                         /\ proc.replaced <=> proc.i > 1
        /\ At("verify") => proc.replaced
        /\ At("rollback") => \A f \in proc.ours : f >= proc.i
        /\ At("failed") /\ ~proc.committed /\ ~proc.torn =>
             \A f \in proc.ours : proc.interrupted /\ f = 1
        /\ proc.step \in {"finish", "final", "done"} => proc.committed
        /\ proc.step \in Early \cup {"before", "replace", "mark", "verify", "rollback"} =>
             ~proc.committed

\* The whole checkout, when nobody else writes
Unedited ==
    Is("restore") /\ ~proc.edited =>
        /\ proc.step \in Early => tree = proc.moment
        /\ At("read") => \A f \in Files : f < proc.i => proc.saw[f] = proc.moment[f]
        /\ proc.step \in {"stage", "unchanged", "before", "replace", "mark", "verify",
                          "rollback"} => proc.saw = proc.moment
        /\ proc.step \in {"before", "replace"} =>
             \A f \in Files : tree[f] = IF f < proc.i THEN archive[f] ELSE proc.moment[f]
        /\ At("mark") =>
             /\ proc.i \in proc.ours
             /\ \A f \in Files : tree[f] = IF f <= proc.i THEN archive[f] ELSE proc.moment[f]
        /\ proc.step \in {"verify", "finish", "final", "done"} => tree = archive
        /\ At("rollback") => \A f \in Files : f < proc.i => tree[f] = proc.moment[f]
        /\ At("failed") /\ proc.committed => tree = archive
        /\ At("failed") /\ ~proc.committed /\ ~proc.torn /\ ~proc.interrupted =>
             tree = proc.moment

\* Only a restore makes temporary files, and it takes them away.
Temporary ==
    ~killed => \A s \in strays : s # Foreign =>
        /\ s[1] = "generated"
        /\ Is("restore") /\ Running /\ proc.step \notin {"finish", "final"}

\* An exception at this point is followed by the rollback.
Undoing == proc.step \in {"before", "replace", "mark", "verify"} /\ proc.replaced

\* A loop goes on to the next file, or over to the next step.
Advances(next) == IF proc.i < Count THEN proc'.step = proc.step /\ proc'.i = proc.i + 1
                  ELSE proc'.step = next /\ proc'.i = 1

IInv == TypeOK /\ Attributed /\ Snapshots /\ Replacing /\ Unedited /\ Temporary

-----------------------------------------------------------------------------

\* The names of the steps
LEMMA StepNames ==
    /\ "done" \in Steps /\ "failed" \in Steps /\ "killed" \in Steps /\ "state" \in Steps
    /\ "load" \in Steps /\ "again" \in Steps /\ "read" \in Steps /\ "stage" \in Steps
    /\ "unchanged" \in Steps /\ "before" \in Steps /\ "replace" \in Steps /\ "mark" \in Steps
    /\ "verify" \in Steps /\ "finish" \in Steps /\ "final" \in Steps /\ "rollback" \in Steps
    /\ "idle" \in Steps
  BY DEF Steps, Ended

\* The first file, and the next
LEMMA FirstFile == 1 \in Files /\ \A f \in Files : f < Count => f + 1 \in Files
  BY SiteDataConstants DEF Files

\* A jump changes the step and starts its loop anew.
LEMMA GotoOK ==
  ASSUME NEW p \in Process, NEW step \in Steps
  PROVE  /\ Goto(p, step) \in Process
         /\ Goto(p, step).step = step /\ Goto(p, step).i = 1
         /\ Goto(p, step).cmd = p.cmd /\ Goto(p, step).saw = p.saw /\ Goto(p, step).same = p.same
         /\ Goto(p, step).replaced = p.replaced /\ Goto(p, step).ours = p.ours
         /\ Goto(p, step).moment = p.moment
         /\ Goto(p, step).edited = p.edited /\ Goto(p, step).interrupted = p.interrupted
         /\ Goto(p, step).committed = p.committed
         /\ Goto(p, step).torn = p.torn
  BY FirstFile DEF Goto, Process

\* A loop changes nothing but where it is.
LEMMA LoopOK ==
  ASSUME NEW p \in Process, NEW step \in Steps
  PROVE  /\ Loop(p, step) \in Process
         /\ IF p.i < Count THEN Loop(p, step).step = p.step /\ Loop(p, step).i = p.i + 1
            ELSE Loop(p, step).step = step /\ Loop(p, step).i = 1
         /\ Loop(p, step).cmd = p.cmd /\ Loop(p, step).saw = p.saw /\ Loop(p, step).same = p.same
         /\ Loop(p, step).replaced = p.replaced /\ Loop(p, step).ours = p.ours
         /\ Loop(p, step).moment = p.moment
         /\ Loop(p, step).edited = p.edited /\ Loop(p, step).interrupted = p.interrupted
         /\ Loop(p, step).committed = p.committed
         /\ Loop(p, step).torn = p.torn
<1>1. CASE p.i < Count
  <2>1. Loop(p, step) = [p EXCEPT !.i = p.i + 1] /\ p.i + 1 \in Files
    BY <1>1, FirstFile DEF Loop, Process
  <2> QED
    BY <1>1, <2>1 DEF Process
<1>2. CASE ~(p.i < Count)
  BY <1>2, GotoOK DEF Loop
<1> QED
  BY <1>1, <1>2

\* What Begin does to the command's own state
LEMMA BeginEffect ==
  ASSUME IInv, Begin
  PROVE  /\ proc' \in Process
         /\ proc'.step = "state" /\ proc'.moment = tree
         /\ proc'.i = 1 /\ proc'.same = {} /\ proc'.ours = {}
         /\ ~proc'.replaced /\ ~proc'.edited /\ ~proc'.interrupted
         /\ ~proc'.committed /\ ~proc'.torn
<1>1. PICK cmd \in Commands : proc' = New(cmd, "state")
  BY DEF Begin
<1>2. Clean \in Payloads /\ tree \in Trees /\ "state" \in Steps
  BY StepNames, SiteDataConstants DEF IInv, TypeOK, Clean, Payloads
<1> QED
  BY <1>1, <1>2, FirstFile DEF New, Process

\* What CheckState does to the command's own state
LEMMA CheckStateEffect ==
  ASSUME IInv, CheckState
  PROVE  /\ proc' \in Process
         /\ proc'.step = (IF Is("pack") THEN "read" ELSE "load") /\ proc'.i = 1
         /\ proc'.cmd = proc.cmd /\ proc'.saw = proc.saw /\ proc'.same = proc.same
         /\ proc'.replaced = proc.replaced /\ proc'.ours = proc.ours /\ proc'.moment = proc.moment
         /\ proc'.edited = proc.edited /\ proc'.interrupted = proc.interrupted
         /\ proc'.committed = proc.committed
         /\ proc'.torn = proc.torn
<1>0. proc \in Process /\ proc.i \in Files
  BY DEF IInv, TypeOK, Process
<1>1. proc' = Goto(proc, (IF Is("pack") THEN "read" ELSE "load"))
  BY DEF CheckState
<1>2. (IF Is("pack") THEN "read" ELSE "load") \in Steps
  BY StepNames
<1> QED
  BY <1>0, <1>1, <1>2, GotoOK

\* What Load does to the command's own state
LEMMA LoadEffect ==
  ASSUME IInv, Load
  PROVE  /\ proc' \in Process
         /\ proc'.step = (IF Is("restore") THEN "again" ELSE "read") /\ proc'.i = 1
         /\ proc'.cmd = proc.cmd /\ proc'.saw = proc.saw /\ proc'.same = proc.same
         /\ proc'.replaced = proc.replaced /\ proc'.ours = proc.ours /\ proc'.moment = proc.moment
         /\ proc'.edited = proc.edited /\ proc'.interrupted = proc.interrupted
         /\ proc'.committed = proc.committed
         /\ proc'.torn = proc.torn
<1>0. proc \in Process /\ proc.i \in Files
  BY DEF IInv, TypeOK, Process
<1>1. proc' = Goto(proc, (IF Is("restore") THEN "again" ELSE "read"))
  BY DEF Load
<1>2. (IF Is("restore") THEN "again" ELSE "read") \in Steps
  BY StepNames
<1> QED
  BY <1>0, <1>1, <1>2, GotoOK

\* What CheckAgain does to the command's own state
LEMMA CheckAgainEffect ==
  ASSUME IInv, CheckAgain
  PROVE  /\ proc' \in Process
         /\ proc'.step = "read" /\ proc'.i = 1
         /\ proc'.cmd = proc.cmd /\ proc'.saw = proc.saw /\ proc'.same = proc.same
         /\ proc'.replaced = proc.replaced /\ proc'.ours = proc.ours /\ proc'.moment = proc.moment
         /\ proc'.edited = proc.edited /\ proc'.interrupted = proc.interrupted
         /\ proc'.committed = proc.committed
         /\ proc'.torn = proc.torn
<1>0. proc \in Process /\ proc.i \in Files
  BY DEF IInv, TypeOK, Process
<1>1. proc' = Goto(proc, "read")
  BY DEF CheckAgain
<1>2. "read" \in Steps
  BY StepNames
<1> QED
  BY <1>0, <1>1, <1>2, GotoOK

\* What Read does to the command's own state
LEMMA ReadEffect ==
  ASSUME IInv, Read
  PROVE  /\ proc' \in Process
         /\ Advances((IF Is("restore") THEN "stage" ELSE "unchanged"))
         /\ proc'.saw = [proc.saw EXCEPT ![proc.i] = tree[proc.i]]
         /\ proc'.same = proc.same \cup {proc.i}
         /\ proc'.moment = (IF Is("restore") THEN proc.moment ELSE tree)
         /\ proc'.cmd = proc.cmd /\ proc'.replaced = proc.replaced /\ proc'.ours = proc.ours
         /\ proc'.edited = proc.edited /\ proc'.interrupted = proc.interrupted
         /\ proc'.committed = proc.committed
         /\ proc'.torn = proc.torn
<1> DEFINE p == [proc EXCEPT !.saw[proc.i] = tree[proc.i], !.same = @ \cup {proc.i},
                      !.moment = IF Is("restore") THEN @ ELSE tree]
<1>0. proc \in Process /\ proc.i \in Files
  BY DEF IInv, TypeOK, Process
<1>1. /\ p \in Process /\ p.step = proc.step /\ p.i = proc.i
      /\ p.saw = [proc.saw EXCEPT ![proc.i] = tree[proc.i]]
      /\ p.same = proc.same \cup {proc.i}
      /\ p.moment = (IF Is("restore") THEN proc.moment ELSE tree)
      /\ p.cmd = proc.cmd /\ p.replaced = proc.replaced /\ p.ours = proc.ours
      /\ p.edited = proc.edited /\ p.interrupted = proc.interrupted /\ p.committed = proc.committed
      /\ p.torn = proc.torn
  BY <1>0 DEF IInv, TypeOK, Process, Payloads, Trees, Read
<1>2. proc' = Loop(p, (IF Is("restore") THEN "stage" ELSE "unchanged"))
  BY DEF Read
<1>3. (IF Is("restore") THEN "stage" ELSE "unchanged") \in Steps
  BY StepNames
<1> HIDE DEF p
<1> QED
  BY <1>1, <1>2, <1>3, LoopOK DEF Advances

\* What Stage does to the command's own state
LEMMA StageEffect ==
  ASSUME IInv, Stage
  PROVE  /\ proc' \in Process
         /\ Advances("unchanged")
         /\ proc'.cmd = proc.cmd /\ proc'.saw = proc.saw /\ proc'.same = proc.same
         /\ proc'.replaced = proc.replaced /\ proc'.ours = proc.ours /\ proc'.moment = proc.moment
         /\ proc'.edited = proc.edited /\ proc'.interrupted = proc.interrupted
         /\ proc'.committed = proc.committed
         /\ proc'.torn = proc.torn
<1>0. proc \in Process /\ proc.i \in Files
  BY DEF IInv, TypeOK, Process
<1>1. proc' = Loop(proc, "unchanged")
  BY DEF Stage
<1>2. "unchanged" \in Steps
  BY StepNames
<1> QED
  BY <1>0, <1>1, <1>2, LoopOK DEF Advances

\* What CheckUnchanged does to the command's own state
LEMMA CheckUnchangedEffect ==
  ASSUME IInv, CheckUnchanged
  PROVE  /\ proc' \in Process
         /\ Advances((IF Is("restore") THEN "before" ELSE "finish"))
         /\ proc'.cmd = proc.cmd /\ proc'.saw = proc.saw /\ proc'.same = proc.same
         /\ proc'.replaced = proc.replaced /\ proc'.ours = proc.ours /\ proc'.moment = proc.moment
         /\ proc'.edited = proc.edited /\ proc'.interrupted = proc.interrupted
         /\ proc'.committed = proc.committed
         /\ proc'.torn = proc.torn
<1>0. proc \in Process /\ proc.i \in Files
  BY DEF IInv, TypeOK, Process
<1>1. proc' = Loop(proc, (IF Is("restore") THEN "before" ELSE "finish"))
  BY DEF CheckUnchanged
<1>2. (IF Is("restore") THEN "before" ELSE "finish") \in Steps
  BY StepNames
<1> QED
  BY <1>0, <1>1, <1>2, LoopOK DEF Advances

\* What CheckBefore does to the command's own state
LEMMA CheckBeforeEffect ==
  ASSUME IInv, CheckBefore
  PROVE  /\ proc' \in Process
         /\ proc'.step = "replace" /\ proc'.i = proc.i
         /\ proc'.cmd = proc.cmd /\ proc'.saw = proc.saw /\ proc'.same = proc.same
         /\ proc'.replaced = proc.replaced /\ proc'.ours = proc.ours /\ proc'.moment = proc.moment
         /\ proc'.edited = proc.edited /\ proc'.interrupted = proc.interrupted
         /\ proc'.committed = proc.committed
         /\ proc'.torn = proc.torn
  BY StepNames, FirstFile DEF IInv, TypeOK, Process, Trees, Payloads, CheckBefore

\* What Replace does to the command's own state
LEMMA ReplaceEffect ==
  ASSUME IInv, Replace
  PROVE  /\ proc' \in Process
         /\ proc'.step = "mark" /\ proc'.i = proc.i
         /\ proc'.ours = proc.ours \cup {proc.i}
         /\ proc'.same = proc.same \ {proc.i}
         /\ proc'.cmd = proc.cmd /\ proc'.saw = proc.saw /\ proc'.replaced = proc.replaced
         /\ proc'.moment = proc.moment /\ proc'.edited = proc.edited
         /\ proc'.interrupted = proc.interrupted
         /\ proc'.committed = proc.committed /\ proc'.torn = proc.torn
  BY StepNames, FirstFile DEF IInv, TypeOK, Process, Trees, Payloads, Replace

\* What Mark does to the command's own state
LEMMA MarkEffect ==
  ASSUME IInv, Mark
  PROVE  /\ proc' \in Process
         /\ IF proc.i < Count THEN proc'.step = "before" /\ proc'.i = proc.i + 1
             ELSE proc'.step = "verify" /\ proc'.i = 1
         /\ proc'.replaced
         /\ proc'.cmd = proc.cmd /\ proc'.saw = proc.saw /\ proc'.same = proc.same
         /\ proc'.ours = proc.ours /\ proc'.moment = proc.moment /\ proc'.edited = proc.edited
         /\ proc'.interrupted = proc.interrupted /\ proc'.committed = proc.committed
         /\ proc'.torn = proc.torn
<1>0. proc \in Process /\ proc.i \in Files
  BY DEF IInv, TypeOK, Process
<1>1. /\ Marked(proc) \in Process /\ Marked(proc).i = proc.i /\ Marked(proc).replaced
      /\ Marked(proc).cmd = proc.cmd /\ Marked(proc).saw = proc.saw /\ Marked(proc).same = proc.same
      /\ Marked(proc).ours = proc.ours /\ Marked(proc).moment = proc.moment
      /\ Marked(proc).edited = proc.edited
      /\ Marked(proc).interrupted = proc.interrupted /\ Marked(proc).committed = proc.committed
      /\ Marked(proc).torn = proc.torn
  BY <1>0 DEF Marked, Process
<1>2. CASE proc.i < Count
  <2>1. proc' = [Marked(proc) EXCEPT !.step = "before", !.i = proc.i + 1] /\ proc.i + 1 \in Files
    BY <1>0, <1>1, <1>2, FirstFile DEF Mark
  <2> QED
    BY <1>1, <1>2, <2>1, StepNames DEF Process
<1>3. CASE ~(proc.i < Count)
  <2>1. proc' = Goto(Marked(proc), "verify") /\ "verify" \in Steps
    BY <1>1, <1>3, StepNames DEF Mark
  <2> QED
    BY <1>1, <1>3, <2>1, GotoOK
<1> QED
  BY <1>2, <1>3

\* What Verify does to the command's own state
LEMMA VerifyEffect ==
  ASSUME IInv, Verify
  PROVE  /\ proc' \in Process
         /\ Advances("finish")
         /\ proc'.committed = (proc.i = Count)
         /\ proc'.cmd = proc.cmd /\ proc'.saw = proc.saw /\ proc'.same = proc.same
         /\ proc'.replaced = proc.replaced /\ proc'.ours = proc.ours /\ proc'.moment = proc.moment
         /\ proc'.edited = proc.edited /\ proc'.interrupted = proc.interrupted
         /\ proc'.torn = proc.torn
<1>0. proc \in Process /\ proc.i \in Files
  BY DEF IInv, TypeOK, Process
<1>1. Loop(proc, "finish") \in Process
  BY <1>0, LoopOK, StepNames
<1> DEFINE p == Loop(proc, "finish")
<1>2. proc' = [p EXCEPT !.committed = (proc.i = Count)] /\ p \in Process
  BY <1>1 DEF Verify
<1>3. /\ proc' \in Process /\ proc'.step = p.step /\ proc'.i = p.i
      /\ proc'.committed = (proc.i = Count)
      /\ proc'.cmd = p.cmd /\ proc'.saw = p.saw /\ proc'.same = p.same
      /\ proc'.replaced = p.replaced /\ proc'.ours = p.ours /\ proc'.moment = p.moment
      /\ proc'.edited = p.edited /\ proc'.interrupted = p.interrupted /\ proc'.torn = p.torn
  BY <1>2 DEF Process
<1>4. "finish" \in Steps
  BY StepNames
<1>5. IF proc.i < Count THEN p.step = proc.step
        /\ p.i = proc.i + 1 ELSE p.step = "finish" /\ p.i = 1
  BY <1>0, <1>4, LoopOK
<1>6. /\ p.cmd = proc.cmd
      /\ p.saw = proc.saw /\ p.same = proc.same /\ p.replaced = proc.replaced
      /\ p.ours = proc.ours /\ p.moment = proc.moment /\ p.edited = proc.edited
      /\ p.interrupted = proc.interrupted /\ p.torn = proc.torn
  BY <1>0, <1>4, LoopOK
<1> HIDE DEF p
<1> QED
  BY <1>3, <1>5, <1>6 DEF Advances

\* What Finish does to the command's own state
LEMMA FinishEffect ==
  ASSUME IInv, Finish
  PROVE  /\ proc' \in Process
         /\ proc'.step = (IF Is("restore") THEN "final" ELSE "done") /\ proc'.i = 1
         /\ proc'.cmd = proc.cmd /\ proc'.saw = proc.saw /\ proc'.same = proc.same
         /\ proc'.replaced = proc.replaced /\ proc'.ours = proc.ours /\ proc'.moment = proc.moment
         /\ proc'.edited = proc.edited /\ proc'.interrupted = proc.interrupted
         /\ proc'.committed = proc.committed
         /\ proc'.torn = proc.torn
<1>0. proc \in Process /\ proc.i \in Files
  BY DEF IInv, TypeOK, Process
<1>1. proc' = Goto(proc, (IF Is("restore") THEN "final" ELSE "done"))
  BY DEF Finish
<1>2. (IF Is("restore") THEN "final" ELSE "done") \in Steps
  BY StepNames
<1> QED
  BY <1>0, <1>1, <1>2, GotoOK

\* What Final does to the command's own state
LEMMA FinalEffect ==
  ASSUME IInv, Final
  PROVE  /\ proc' \in Process
         /\ Advances("done")
         /\ proc'.cmd = proc.cmd /\ proc'.saw = proc.saw /\ proc'.same = proc.same
         /\ proc'.replaced = proc.replaced /\ proc'.ours = proc.ours /\ proc'.moment = proc.moment
         /\ proc'.edited = proc.edited /\ proc'.interrupted = proc.interrupted
         /\ proc'.committed = proc.committed
         /\ proc'.torn = proc.torn
<1>0. proc \in Process /\ proc.i \in Files
  BY DEF IInv, TypeOK, Process
<1>1. proc' = Loop(proc, "done")
  BY DEF Final
<1>2. "done" \in Steps
  BY StepNames
<1> QED
  BY <1>0, <1>1, <1>2, LoopOK DEF Advances

\* What Rollback does to the command's own state
LEMMA RollbackEffect ==
  ASSUME IInv, Rollback
  PROVE  /\ proc' \in Process
         /\ Advances("failed")
         /\ proc'.ours = proc.ours \ {proc.i}
         /\ proc'.same = proc.same \ {proc.i}
         /\ proc'.cmd = proc.cmd /\ proc'.saw = proc.saw /\ proc'.replaced = proc.replaced
         /\ proc'.moment = proc.moment /\ proc'.edited = proc.edited
         /\ proc'.interrupted = proc.interrupted
         /\ proc'.committed = proc.committed /\ proc'.torn = proc.torn
<1> DEFINE p == [proc EXCEPT !.ours = @ \ {proc.i}, !.same = @ \ {proc.i}]
<1>0. proc \in Process /\ proc.i \in Files
  BY DEF IInv, TypeOK, Process
<1>1. /\ p \in Process /\ p.step = proc.step /\ p.i = proc.i
      /\ p.ours = proc.ours \ {proc.i}
      /\ p.same = proc.same \ {proc.i}
      /\ p.cmd = proc.cmd /\ p.saw = proc.saw /\ p.replaced = proc.replaced
      /\ p.moment = proc.moment /\ p.edited = proc.edited /\ p.interrupted = proc.interrupted
      /\ p.committed = proc.committed /\ p.torn = proc.torn
  BY <1>0 DEF Process
<1>2. proc' = Loop(p, "failed")
  BY DEF Rollback
<1>3. "failed" \in Steps
  BY StepNames
<1> HIDE DEF p
<1> QED
  BY <1>1, <1>2, <1>3, LoopOK DEF Advances

\* What Raise does to the command's own state
LEMMA RaiseEffect ==
  ASSUME IInv, NEW interrupt \in BOOLEAN, Raise(interrupt)
  PROVE  /\ proc' \in Process
         /\ proc'.step = (IF Undoing THEN "rollback" ELSE "failed") /\ proc'.i = 1
         /\ proc'.interrupted = (proc.interrupted \/ interrupt)
         /\ proc'.torn = (proc.torn \/ At("rollback"))
         /\ proc'.cmd = proc.cmd /\ proc'.saw = proc.saw /\ proc'.same = proc.same
         /\ proc'.replaced = proc.replaced /\ proc'.ours = proc.ours /\ proc'.moment = proc.moment
         /\ proc'.edited = proc.edited /\ proc'.committed = proc.committed
<1> DEFINE p == [proc EXCEPT !.interrupted = @ \/ interrupt, !.torn = @ \/ At("rollback")]
<1>0. proc \in Process /\ proc.i \in Files
  BY DEF IInv, TypeOK, Process
<1>1. /\ p \in Process /\ p.step = proc.step /\ p.i = proc.i
      /\ p.interrupted = (proc.interrupted \/ interrupt)
      /\ p.torn = (proc.torn \/ At("rollback"))
      /\ p.cmd = proc.cmd /\ p.saw = proc.saw /\ p.same = proc.same
      /\ p.replaced = proc.replaced /\ p.ours = proc.ours /\ p.moment = proc.moment
      /\ p.edited = proc.edited /\ p.committed = proc.committed
  BY <1>0 DEF Process, At
<1>2. proc' = Goto(p, IF Undoing THEN "rollback" ELSE "failed")
  BY DEF Raise, Undoing
<1>3. (IF Undoing THEN "rollback" ELSE "failed") \in Steps
  BY StepNames
<1> HIDE DEF p
<1> QED
  BY <1>1, <1>2, <1>3, GotoOK

\* What Kill does to the command's own state
LEMMA KillEffect ==
  ASSUME IInv, Kill
  PROVE  /\ proc' \in Process
         /\ proc'.step = "killed" /\ proc'.i = 1
         /\ proc'.cmd = proc.cmd /\ proc'.saw = proc.saw /\ proc'.same = proc.same
         /\ proc'.replaced = proc.replaced /\ proc'.ours = proc.ours /\ proc'.moment = proc.moment
         /\ proc'.edited = proc.edited /\ proc'.interrupted = proc.interrupted
         /\ proc'.committed = proc.committed
         /\ proc'.torn = proc.torn
<1>0. proc \in Process /\ proc.i \in Files
  BY DEF IInv, TypeOK, Process
<1>1. proc' = Goto(proc, "killed")
  BY DEF Kill
<1>2. "killed" \in Steps
  BY StepNames
<1> QED
  BY <1>0, <1>1, <1>2, GotoOK

\* What Edit does to the command's own state
LEMMA EditEffect ==
  ASSUME IInv, Edit
  PROVE  /\ proc' \in Process
         /\ proc'.step = proc.step /\ proc'.i = proc.i /\ proc'.edited
         /\ proc'.same \subseteq proc.same /\ proc'.ours \subseteq proc.ours
         /\ \A f \in proc'.same : tree'[f] = tree[f]
         /\ proc'.cmd = proc.cmd /\ proc'.saw = proc.saw /\ proc'.replaced = proc.replaced
         /\ proc'.moment = proc.moment /\ proc'.interrupted = proc.interrupted
         /\ proc'.committed = proc.committed
         /\ proc'.torn = proc.torn
<1>0. proc \in Process /\ proc.i \in Files
  BY DEF IInv, TypeOK, Process
<1>1. CASE \E f \in Files, data \in Contents \cup {Gone} :
              /\ tree' = [tree EXCEPT ![f] = data]
              /\ proc' = [proc EXCEPT !.same = @ \ {f}, !.ours = @ \ {f}, !.edited = TRUE]
  <2>1. PICK f \in Files :
          /\ \E data \in Contents \cup {Gone} : tree' = [tree EXCEPT ![f] = data]
          /\ proc' = [proc EXCEPT !.same = @ \ {f}, !.ours = @ \ {f}, !.edited = TRUE]
    BY <1>1
  <2>2. \A g \in Files \ {f} : tree'[g] = tree[g]
    BY <2>1 DEF IInv, TypeOK, Trees
  <2> QED
    BY <1>0, <2>1, <2>2 DEF Process
<1>2. CASE tree' = tree /\ proc' = [proc EXCEPT !.edited = TRUE]
  BY <1>0, <1>2 DEF Process
<1> QED
  BY <1>1, <1>2 DEF Edit

\* What Checkout does to the command's own state
LEMMA CheckoutEffect ==
  ASSUME IInv, Checkout
  PROVE  /\ proc' \in Process
         /\ proc'.cmd = "pack" /\ proc'.step = "idle"
         /\ proc'.i = 1 /\ proc'.same = {} /\ proc'.ours = {}
         /\ ~proc'.replaced /\ ~proc'.edited /\ ~proc'.interrupted
         /\ ~proc'.committed /\ ~proc'.torn
<1>1. Clean \in Payloads /\ Clean \in Trees /\ "pack" \in Commands
  BY SiteDataConstants DEF Clean, Payloads, Trees, Commands
<1> QED
  BY <1>1, StepNames, FirstFile DEF Checkout, New, Process

\* What Generate does to the command's own state
LEMMA GenerateEffect ==
  ASSUME IInv, Generate
  PROVE  /\ proc' \in Process
         /\ proc'.cmd = "pack" /\ proc'.step = "idle"
         /\ proc'.i = 1 /\ proc'.same = {} /\ proc'.ours = {}
         /\ ~proc'.replaced /\ ~proc'.edited /\ ~proc'.interrupted
         /\ ~proc'.committed /\ ~proc'.torn
<1>1. Clean \in Payloads /\ Clean \in Trees /\ "pack" \in Commands
  BY SiteDataConstants DEF Clean, Payloads, Trees, Commands
<1> QED
  BY <1>1, StepNames, FirstFile DEF Generate, New, Process

\* Every step keeps TypeOK.
LEMMA TypeOKStep == IInv /\ [Next]_vars => TypeOK'
<1> SUFFICES ASSUME IInv, [Next]_vars PROVE TypeOK'
  OBVIOUS
<1>0. proc \in Process /\ proc.i \in 1..Count /\ tree \in Trees
        /\ archive \in Payloads \cup {NoArchive}
        /\ proc.same \subseteq Files /\ proc.ours \subseteq Files
        /\ proc.moment \in Trees /\ proc.saw \in Payloads
  BY DEF IInv, TypeOK, Process, Files
<1>1. ASSUME Begin PROVE TypeOK'
  BY <1>0, <1>1, BeginEffect, SiteDataConstants DEF IInv, TypeOK, Attributed, Begin,
     Running, Advances, At, Is, Trees, Payloads, Files, Temporaries, Foreign, Clean
<1>2. ASSUME CheckState PROVE TypeOK'
  BY <1>0, <1>2, CheckStateEffect, SiteDataConstants DEF IInv, TypeOK, Attributed,
     CheckState, Advances, At, Is, Trees, Payloads, Files, Temporaries, Foreign, Clean
<1>3. ASSUME Load PROVE TypeOK'
  BY <1>0, <1>3, LoadEffect, SiteDataConstants DEF IInv, TypeOK, Attributed, Load,
     Advances, At, Is, Trees, Payloads, Files, Temporaries, Foreign, Clean
<1>4. ASSUME CheckAgain PROVE TypeOK'
  BY <1>0, <1>4, CheckAgainEffect, SiteDataConstants DEF IInv, TypeOK, Attributed,
     CheckAgain, Advances, At, Is, Trees, Payloads, Files, Temporaries, Foreign, Clean
<1>5. ASSUME Read PROVE TypeOK'
  BY <1>0, <1>5, ReadEffect, SiteDataConstants DEF IInv, TypeOK, Attributed, Read,
     Advances, At, Is, Trees, Payloads, Files, Temporaries, Foreign, Clean
<1>6. ASSUME Stage PROVE TypeOK'
  BY <1>0, <1>6, StageEffect, SiteDataConstants DEF IInv, TypeOK, Attributed, Stage,
     Advances, At, Is, Trees, Payloads, Files, Temporaries, Foreign, Clean
<1>7. ASSUME CheckUnchanged PROVE TypeOK'
  BY <1>0, <1>7, CheckUnchangedEffect, SiteDataConstants DEF IInv, TypeOK, Attributed,
     CheckUnchanged, Unchanged, Advances, At, Is, Trees, Payloads, Files, Temporaries,
     Foreign, Clean
<1>8. ASSUME CheckBefore PROVE TypeOK'
  BY <1>0, <1>8, CheckBeforeEffect, SiteDataConstants DEF IInv, TypeOK, Attributed,
     CheckBefore, Holds, Advances, At, Is, Trees, Payloads, Files, Temporaries, Foreign,
     Clean
<1>9. ASSUME Replace PROVE TypeOK'
  BY <1>0, <1>9, ReplaceEffect, SiteDataConstants DEF IInv, TypeOK, Attributed, Replace,
     Advances, At, Is, Trees, Payloads, Files, Temporaries, Foreign, Clean
<1>10. ASSUME Mark PROVE TypeOK'
  BY <1>0, <1>10, MarkEffect, SiteDataConstants DEF IInv, TypeOK, Attributed, Mark,
     Advances, At, Is, Trees, Payloads, Files, Temporaries, Foreign, Clean
<1>11. ASSUME Verify PROVE TypeOK'
  BY <1>0, <1>11, VerifyEffect, SiteDataConstants DEF IInv, TypeOK, Attributed, Verify,
     Holds, Unlinked, Advances, At, Is, Trees, Payloads, Files, Temporaries, Foreign, Clean
<1>12. ASSUME Finish PROVE TypeOK'
  BY <1>0, <1>12, FinishEffect, SiteDataConstants DEF IInv, TypeOK, Attributed, Finish,
     Advances, At, Is, Trees, Payloads, Files, Temporaries, Foreign, Clean
<1>13. ASSUME Final PROVE TypeOK'
  BY <1>0, <1>13, FinalEffect, SiteDataConstants DEF IInv, TypeOK, Attributed, Final,
     Holds, Advances, At, Is, Trees, Payloads, Files, Temporaries, Foreign, Clean
<1>14. ASSUME Rollback PROVE TypeOK'
  BY <1>0, <1>14, RollbackEffect, SiteDataConstants DEF IInv, TypeOK, Attributed,
     Rollback, Unlinked, Advances, At, Is, Trees, Payloads, Files, Temporaries, Foreign,
     Clean
<1>15. ASSUME NEW interrupt \in BOOLEAN, Raise(interrupt) PROVE TypeOK'
  BY <1>0, <1>15, RaiseEffect, SiteDataConstants DEF IInv, TypeOK, Attributed, Raise,
     Undoing, Unlinked, Running, Advances, At, Is, Trees, Payloads, Files, Temporaries,
     Foreign, Clean
<1>16. ASSUME Kill PROVE TypeOK'
  BY <1>0, <1>16, KillEffect, SiteDataConstants DEF IInv, TypeOK, Attributed, Kill,
     Running, Advances, At, Is, Trees, Payloads, Files, Temporaries, Foreign, Clean
<1>17. ASSUME Edit PROVE TypeOK'
  <2>1. proc' \in Process
    BY <1>17, EditEffect
  <2>2. edits' \in 0..MaxEdits
    <3>1. edits < MaxEdits /\ edits' = edits + 1
      BY <1>17 DEF Edit
    <3>2. edits \in 0..MaxEdits
      BY DEF IInv, TypeOK
    <3> QED
      BY <3>1, <3>2, SiteDataConstants
  <2>3. archive' \in Payloads \cup {NoArchive} /\ killed' \in BOOLEAN
    BY <1>17 DEF IInv, TypeOK, Edit
  <2>4. strays' = strays \cup {Foreign} \/ strays' = strays
    BY <1>17 DEF Edit
  <2>5. strays' \subseteq Temporaries \cup {Foreign}
    BY <2>4 DEF IInv, TypeOK
  <2>6. tree' = tree
          \/ \E f \in Files, data \in Contents \cup {Gone} : tree' = [tree EXCEPT ![f] = data]
    BY <1>17 DEF Edit
  <2>7. tree' \in Trees
    BY <1>0, <2>6 DEF Trees
  <2> QED
    BY <2>1, <2>2, <2>3, <2>5, <2>7 DEF TypeOK
<1>18. ASSUME Checkout PROVE TypeOK'
  BY <1>0, <1>18, CheckoutEffect, SiteDataConstants DEF IInv, TypeOK, Attributed,
     Checkout, Advances, At, Is, Trees, Payloads, Files, Temporaries, Foreign, Clean
<1>19. ASSUME Generate PROVE TypeOK'
  BY <1>0, <1>19, GenerateEffect, SiteDataConstants DEF IInv, TypeOK, Attributed,
     Generate, Advances, At, Is, Trees, Payloads, Files, Temporaries, Foreign, Clean
<1>20. CASE UNCHANGED vars
  BY <1>20 DEF IInv, TypeOK, Attributed, vars, At, Is, Temporaries, Foreign, Trees,
     Payloads, Clean
<1> QED
  BY <1>1, <1>2, <1>3, <1>4, <1>5, <1>6, <1>7, <1>8, <1>9, <1>10, <1>11, <1>12, <1>13,
     <1>14, <1>15, <1>16, <1>17, <1>18, <1>19, <1>20 DEF Next, Command

\* Every step keeps Attributed.
LEMMA AttributedStep == IInv /\ [Next]_vars => Attributed'
<1> SUFFICES ASSUME IInv, [Next]_vars PROVE Attributed'
  OBVIOUS
<1>0. proc \in Process /\ proc.i \in 1..Count /\ tree \in Trees
        /\ archive \in Payloads \cup {NoArchive}
        /\ proc.same \subseteq Files /\ proc.ours \subseteq Files
        /\ proc.moment \in Trees /\ proc.saw \in Payloads
  BY DEF IInv, TypeOK, Process, Files
<1>1. ASSUME Begin PROVE Attributed'
  BY <1>0, <1>1, BeginEffect, SiteDataConstants DEF IInv, Attributed, Begin, Running,
     Advances, At, Is, Trees, Payloads, Files, NoArchive
<1>2. ASSUME CheckState PROVE Attributed'
  BY <1>0, <1>2, CheckStateEffect, SiteDataConstants DEF IInv, Attributed, CheckState,
     Advances, At, Is, Trees, Payloads, Files, NoArchive
<1>3. ASSUME Load PROVE Attributed'
  BY <1>0, <1>3, LoadEffect, SiteDataConstants DEF IInv, Attributed, Load, Advances, At,
     Is, Trees, Payloads, Files, NoArchive
<1>4. ASSUME CheckAgain PROVE Attributed'
  BY <1>0, <1>4, CheckAgainEffect, SiteDataConstants DEF IInv, Attributed, CheckAgain,
     Advances, At, Is, Trees, Payloads, Files, NoArchive
<1>5. ASSUME Read PROVE Attributed'
  BY <1>0, <1>5, ReadEffect, SiteDataConstants DEF IInv, Attributed, Read, Advances, At,
     Is, Trees, Payloads, Files, NoArchive
<1>6. ASSUME Stage PROVE Attributed'
  BY <1>0, <1>6, StageEffect, SiteDataConstants DEF IInv, Attributed, Stage, Advances,
     At, Is, Trees, Payloads, Files, NoArchive
<1>7. ASSUME CheckUnchanged PROVE Attributed'
  BY <1>0, <1>7, CheckUnchangedEffect, SiteDataConstants DEF IInv, Attributed,
     CheckUnchanged, Unchanged, Advances, At, Is, Trees, Payloads, Files, NoArchive
<1>8. ASSUME CheckBefore PROVE Attributed'
  BY <1>0, <1>8, CheckBeforeEffect, SiteDataConstants DEF IInv, Attributed, CheckBefore,
     Holds, Advances, At, Is, Trees, Payloads, Files, NoArchive
<1>9. ASSUME Replace PROVE Attributed'
  BY <1>0, <1>9, ReplaceEffect, SiteDataConstants DEF IInv, Attributed, Replace,
     Advances, At, Is, Trees, Payloads, Files, NoArchive
<1>10. ASSUME Mark PROVE Attributed'
  BY <1>0, <1>10, MarkEffect, SiteDataConstants DEF IInv, Attributed, Mark, Advances, At,
     Is, Trees, Payloads, Files, NoArchive
<1>11. ASSUME Verify PROVE Attributed'
  BY <1>0, <1>11, VerifyEffect, SiteDataConstants DEF IInv, Attributed, Verify, Holds,
     Unlinked, Advances, At, Is, Trees, Payloads, Files, NoArchive
<1>12. ASSUME Finish PROVE Attributed'
  BY <1>0, <1>12, FinishEffect, SiteDataConstants DEF IInv, Attributed, Finish, Advances,
     At, Is, Trees, Payloads, Files, NoArchive
<1>13. ASSUME Final PROVE Attributed'
  BY <1>0, <1>13, FinalEffect, SiteDataConstants DEF IInv, Attributed, Final, Holds,
     Advances, At, Is, Trees, Payloads, Files, NoArchive
<1>14. ASSUME Rollback PROVE Attributed'
  BY <1>0, <1>14, RollbackEffect, SiteDataConstants DEF IInv, Attributed, Rollback,
     Unlinked, Advances, At, Is, Trees, Payloads, Files, NoArchive
<1>15. ASSUME NEW interrupt \in BOOLEAN, Raise(interrupt) PROVE Attributed'
  BY <1>0, <1>15, RaiseEffect, SiteDataConstants DEF IInv, Attributed, Raise, Undoing,
     Unlinked, Running, Advances, At, Is, Trees, Payloads, Files, NoArchive
<1>16. ASSUME Kill PROVE Attributed'
  BY <1>0, <1>16, KillEffect, SiteDataConstants DEF IInv, Attributed, Kill, Running,
     Advances, At, Is, Trees, Payloads, Files, NoArchive
<1>17. ASSUME Edit PROVE Attributed'
  BY <1>0, <1>17, EditEffect, SiteDataConstants DEF IInv, Attributed, Edit, Advances, At,
     Is, Trees, Payloads, Files, NoArchive
<1>18. ASSUME Checkout PROVE Attributed'
  BY <1>0, <1>18, CheckoutEffect, SiteDataConstants DEF IInv, Attributed, Checkout,
     Advances, At, Is, Trees, Payloads, Files, NoArchive
<1>19. ASSUME Generate PROVE Attributed'
  BY <1>0, <1>19, GenerateEffect, SiteDataConstants DEF IInv, Attributed, Generate,
     Advances, At, Is, Trees, Payloads, Files, NoArchive
<1>20. CASE UNCHANGED vars
  BY <1>20 DEF IInv, Attributed, vars, At, Is, NoArchive
<1> QED
  BY <1>1, <1>2, <1>3, <1>4, <1>5, <1>6, <1>7, <1>8, <1>9, <1>10, <1>11, <1>12, <1>13,
     <1>14, <1>15, <1>16, <1>17, <1>18, <1>19, <1>20 DEF Next, Command

\* Every step keeps Snapshots.
LEMMA SnapshotsStep == IInv /\ [Next]_vars => Snapshots'
<1> SUFFICES ASSUME IInv, [Next]_vars PROVE Snapshots'
  OBVIOUS
<1>0. proc \in Process /\ proc.i \in 1..Count /\ tree \in Trees
        /\ archive \in Payloads \cup {NoArchive}
        /\ proc.same \subseteq Files /\ proc.ours \subseteq Files
        /\ proc.moment \in Trees /\ proc.saw \in Payloads
  BY DEF IInv, TypeOK, Process, Files
<1>1. ASSUME Begin PROVE Snapshots'
  BY <1>0, <1>1, BeginEffect, SiteDataConstants DEF IInv, Attributed, Snapshots, Begin,
     Running, Advances, At, Is, Trees, Payloads, Files
<1>2. ASSUME CheckState PROVE Snapshots'
  BY <1>0, <1>2, CheckStateEffect, SiteDataConstants DEF IInv, Attributed, Snapshots,
     CheckState, Advances, At, Is, Trees, Payloads, Files
<1>3. ASSUME Load PROVE Snapshots'
  BY <1>0, <1>3, LoadEffect, SiteDataConstants DEF IInv, Attributed, Snapshots, Load,
     Advances, At, Is, Trees, Payloads, Files
<1>4. ASSUME CheckAgain PROVE Snapshots'
  BY <1>0, <1>4, CheckAgainEffect, SiteDataConstants DEF IInv, Attributed, Snapshots,
     CheckAgain, Advances, At, Is, Trees, Payloads, Files
<1>5. ASSUME Read PROVE Snapshots'
  <2>1. /\ proc'.saw = [proc.saw EXCEPT ![proc.i] = tree[proc.i]]
        /\ proc'.same = proc.same \cup {proc.i} /\ proc'.cmd = proc.cmd
        /\ proc'.moment = IF Is("restore") THEN proc.moment ELSE tree
    BY <1>5, ReadEffect
  <2>2. tree' = tree /\ archive' = archive /\ At("read")
    BY <1>5 DEF Read
  <2>3. \A f \in Files : proc'.saw[f] = IF f = proc.i THEN tree[f] ELSE proc.saw[f]
    BY <1>0, <2>1 DEF Payloads, Files
  <2>4. \A f \in proc'.same : tree'[f] = proc'.saw[f]
    BY <1>0, <2>1, <2>2, <2>3 DEF IInv, Snapshots, Files
  <2>5. CASE Is("restore")
    BY <1>5, ReadEffect, <2>1, <2>4, <2>5 DEF Snapshots, Is, At
  <2>6. CASE ~Is("restore") /\ proc.i < Count
    <3>1. proc'.step = "read" /\ proc'.i = proc.i + 1
      BY <1>5, ReadEffect, <2>2, <2>6 DEF Advances, At
    <3>2. Is("verify") => \A f \in Files : f < proc'.i => proc'.saw[f] = archive[f]
      <4>1. Is("verify") => tree[proc.i] = archive[proc.i]
        BY <1>5 DEF Read
      <4>2. Is("verify") => \A f \in Files : f < proc.i => proc.saw[f] = archive[f]
        BY <2>2 DEF IInv, Snapshots
      <4> QED
        BY <1>0, <2>3, <3>1, <4>1, <4>2 DEF Files
    <3> QED
      BY <2>1, <2>2, <2>4, <3>1, <3>2 DEF Snapshots, Is, At
  <2>7. CASE ~Is("restore") /\ ~(proc.i < Count)
    <3>1. proc'.step = "unchanged" /\ proc'.i = 1
      BY <1>5, ReadEffect, <2>2, <2>7 DEF Advances, At
    <3>2. Is("verify") => \A f \in Files : proc'.saw[f] = archive[f]
      <4>1. Is("verify") => tree[proc.i] = archive[proc.i]
        BY <1>5 DEF Read
      <4>2. Is("verify") => \A f \in Files : f < proc.i => proc.saw[f] = archive[f]
        BY <2>2 DEF IInv, Snapshots
      <4>3. \A f \in Files : f = proc.i \/ f < proc.i
        BY <1>0, <2>7, SiteDataConstants DEF Files
      <4> QED
        BY <2>3, <4>1, <4>2, <4>3
    <3>3. \A f \in proc'.same : proc'.moment[f] = proc'.saw[f]
      BY <2>1, <2>2, <2>4, <2>7
    <3>4. \A f \in Files : f < proc'.i => proc'.moment[f] = proc'.saw[f]
      BY <3>1 DEF Files
    <3> QED
      BY <2>1, <2>2, <2>4, <3>1, <3>2, <3>3, <3>4 DEF Snapshots, Is, At
  <2> QED
    BY <2>5, <2>6, <2>7
<1>6. ASSUME Stage PROVE Snapshots'
  BY <1>0, <1>6, StageEffect, SiteDataConstants DEF IInv, Attributed, Snapshots, Stage,
     Advances, At, Is, Trees, Payloads, Files
<1>7. ASSUME CheckUnchanged PROVE Snapshots'
  <2>1. /\ proc'.saw = proc.saw /\ proc'.same = proc.same /\ proc'.cmd = proc.cmd
        /\ proc'.moment = proc.moment
    BY <1>7, CheckUnchangedEffect
  <2>2. tree' = tree /\ archive' = archive /\ At("unchanged") /\ proc.i \in proc.same
    BY <1>7 DEF CheckUnchanged, Unchanged
  <2>3. ~Is("restore") => \A f \in Files : f <= proc.i => proc.moment[f] = proc.saw[f]
    BY <1>0, <2>2 DEF IInv, Snapshots, At, Files
  <2>4. CASE Is("restore")
    BY <2>1, <2>2, <2>4 DEF IInv, Snapshots, Is
  <2>5. CASE ~Is("restore") /\ proc.i < Count
    <3>1. proc'.step = "unchanged" /\ proc'.i = proc.i + 1
      BY <1>7, CheckUnchangedEffect, <2>2, <2>5 DEF Advances, At
    <3>2. \A f \in Files : f < proc'.i => proc'.moment[f] = proc'.saw[f]
      BY <1>0, <2>1, <2>3, <2>5, <3>1 DEF Files
    <3> QED
      BY <2>1, <2>2, <3>1, <3>2 DEF IInv, Snapshots, Is, At
  <2>6. CASE ~Is("restore") /\ ~(proc.i < Count)
    <3>1. proc'.step = "finish"
      BY <1>7, CheckUnchangedEffect, <2>2, <2>6 DEF Advances, At
    <3>2. \A f \in Files : proc'.moment[f] = proc'.saw[f]
      BY <1>0, <2>1, <2>3, <2>6, SiteDataConstants DEF Files
    <3> QED
      BY <1>0, <2>1, <2>2, <3>1, <3>2 DEF IInv, Snapshots, Is, At
  <2> QED
    BY <2>4, <2>5, <2>6
<1>8. ASSUME CheckBefore PROVE Snapshots'
  BY <1>0, <1>8, CheckBeforeEffect, SiteDataConstants DEF IInv, Attributed, Snapshots,
     CheckBefore, Holds, Advances, At, Is, Trees, Payloads, Files
<1>9. ASSUME Replace PROVE Snapshots'
  BY <1>0, <1>9, ReplaceEffect, SiteDataConstants DEF IInv, Attributed, Snapshots,
     Replace, Advances, At, Is, Trees, Payloads, Files
<1>10. ASSUME Mark PROVE Snapshots'
  BY <1>0, <1>10, MarkEffect, SiteDataConstants DEF IInv, Attributed, Snapshots, Mark,
     Advances, At, Is, Trees, Payloads, Files
<1>11. ASSUME Verify PROVE Snapshots'
  BY <1>0, <1>11, VerifyEffect, SiteDataConstants DEF IInv, Attributed, Snapshots,
     Verify, Holds, Unlinked, Advances, At, Is, Trees, Payloads, Files
<1>12. ASSUME Finish PROVE Snapshots'
  BY <1>0, <1>12, FinishEffect, SiteDataConstants DEF IInv, Attributed, Snapshots,
     Finish, Advances, At, Is, Trees, Payloads, Files
<1>13. ASSUME Final PROVE Snapshots'
  BY <1>0, <1>13, FinalEffect, SiteDataConstants DEF IInv, Attributed, Snapshots, Final,
     Holds, Advances, At, Is, Trees, Payloads, Files
<1>14. ASSUME Rollback PROVE Snapshots'
  BY <1>0, <1>14, RollbackEffect, SiteDataConstants DEF IInv, Attributed, Snapshots,
     Rollback, Unlinked, Advances, At, Is, Trees, Payloads, Files
<1>15. ASSUME NEW interrupt \in BOOLEAN, Raise(interrupt) PROVE Snapshots'
  <2>1. proc'.step = "rollback" \/ proc'.step = "failed"
    BY <1>15, RaiseEffect
  <2>2. /\ proc'.cmd = proc.cmd /\ proc'.saw = proc.saw /\ proc'.same = proc.same
        /\ proc'.moment = proc.moment /\ proc'.ours = proc.ours /\ proc'.edited = proc.edited
        /\ proc'.committed = proc.committed /\ proc'.i = 1
    BY <1>15, RaiseEffect
  <2>3. tree' = tree /\ archive' = archive /\ killed' = killed
    BY <1>15 DEF Raise

  <2> QED
    BY <2>1, <2>2, <2>3 DEF IInv, Snapshots, Is, At
<1>16. ASSUME Kill PROVE Snapshots'
  BY <1>0, <1>16, KillEffect, SiteDataConstants DEF IInv, Attributed, Snapshots, Kill,
     Running, Advances, At, Is, Trees, Payloads, Files
<1>17. ASSUME Edit PROVE Snapshots'
  <2>1. /\ proc'.step = proc.step /\ proc'.i = proc.i /\ proc'.cmd = proc.cmd
        /\ proc'.same \subseteq proc.same /\ \A f \in proc'.same : tree'[f] = tree[f]
        /\ proc'.saw = proc.saw /\ proc'.moment = proc.moment
    BY <1>17, EditEffect
  <2>2. archive' = archive
    BY <1>17 DEF Edit
  <2>3. \A f \in proc'.same : tree'[f] = proc'.saw[f]
    BY <2>1 DEF IInv, Snapshots
  <2> QED
    BY <2>1, <2>2, <2>3 DEF IInv, Snapshots, Is, At
<1>18. ASSUME Checkout PROVE Snapshots'
  BY <1>0, <1>18, CheckoutEffect, SiteDataConstants DEF IInv, Attributed, Snapshots,
     Checkout, Advances, At, Is, Trees, Payloads, Files
<1>19. ASSUME Generate PROVE Snapshots'
  BY <1>0, <1>19, GenerateEffect, SiteDataConstants DEF IInv, Attributed, Snapshots,
     Generate, Advances, At, Is, Trees, Payloads, Files
<1>20. CASE UNCHANGED vars
  BY <1>20 DEF IInv, Attributed, Snapshots, vars, At, Is
<1> QED
  BY <1>1, <1>2, <1>3, <1>4, <1>5, <1>6, <1>7, <1>8, <1>9, <1>10, <1>11, <1>12, <1>13,
     <1>14, <1>15, <1>16, <1>17, <1>18, <1>19, <1>20 DEF Next, Command

\* Every step keeps Replacing.
LEMMA ReplacingStep == IInv /\ [Next]_vars => Replacing'
<1> SUFFICES ASSUME IInv, [Next]_vars PROVE Replacing'
  OBVIOUS
<1>0. proc \in Process /\ proc.i \in 1..Count /\ tree \in Trees
        /\ archive \in Payloads \cup {NoArchive}
        /\ proc.same \subseteq Files /\ proc.ours \subseteq Files
        /\ proc.moment \in Trees /\ proc.saw \in Payloads
  BY DEF IInv, TypeOK, Process, Files
<1>1. ASSUME Begin PROVE Replacing'
  BY <1>0, <1>1, BeginEffect, SiteDataConstants DEF IInv, Replacing, Attributed, Begin,
     Running, Advances, At, Is, Trees, Payloads, Files, Early
<1>2. ASSUME CheckState PROVE Replacing'
  BY <1>0, <1>2, CheckStateEffect, SiteDataConstants DEF IInv, Replacing, Attributed,
     CheckState, Advances, At, Is, Trees, Payloads, Files, Early
<1>3. ASSUME Load PROVE Replacing'
  BY <1>0, <1>3, LoadEffect, SiteDataConstants DEF IInv, Replacing, Attributed, Load,
     Advances, At, Is, Trees, Payloads, Files, Early
<1>4. ASSUME CheckAgain PROVE Replacing'
  BY <1>0, <1>4, CheckAgainEffect, SiteDataConstants DEF IInv, Replacing, Attributed,
     CheckAgain, Advances, At, Is, Trees, Payloads, Files, Early
<1>5. ASSUME Read PROVE Replacing'
  BY <1>0, <1>5, ReadEffect, SiteDataConstants DEF IInv, Replacing, Attributed, Read,
     Advances, At, Is, Trees, Payloads, Files, Early
<1>6. ASSUME Stage PROVE Replacing'
  BY <1>0, <1>6, StageEffect, SiteDataConstants DEF IInv, Replacing, Attributed, Stage,
     Advances, At, Is, Trees, Payloads, Files, Early
<1>7. ASSUME CheckUnchanged PROVE Replacing'
  BY <1>0, <1>7, CheckUnchangedEffect, SiteDataConstants DEF IInv, Replacing, Attributed,
     CheckUnchanged, Unchanged, Advances, At, Is, Trees, Payloads, Files, Early
<1>8. ASSUME CheckBefore PROVE Replacing'
  BY <1>0, <1>8, CheckBeforeEffect, SiteDataConstants DEF IInv, Replacing, Attributed,
     CheckBefore, Holds, Advances, At, Is, Trees, Payloads, Files, Early
<1>9. ASSUME Replace PROVE Replacing'
  BY <1>0, <1>9, ReplaceEffect, SiteDataConstants DEF IInv, Replacing, Attributed,
     Replace, Advances, At, Is, Trees, Payloads, Files, Early
<1>10. ASSUME Mark PROVE Replacing'
  BY <1>0, <1>10, MarkEffect, SiteDataConstants DEF IInv, Replacing, Attributed, Mark,
     Advances, At, Is, Trees, Payloads, Files, Early
<1>11. ASSUME Verify PROVE Replacing'
  <2>1. At("verify") /\ proc.replaced
    BY <1>11 DEF Verify, IInv, Attributed, Replacing, Is, At
  <2>2. /\ proc'.ours = proc.ours /\ proc'.replaced = proc.replaced /\ proc'.cmd = proc.cmd
        /\ proc'.committed = (proc.i = Count)
    BY <1>11, VerifyEffect
  <2>3. CASE proc.i < Count
    <3>0. Advances("finish")
      BY <1>11, VerifyEffect
    <3>2. proc.i # Count
      BY <1>0, <2>3, SiteDataConstants
    <3>1. proc'.step = "verify" /\ ~proc'.committed
      BY <2>1, <2>2, <2>3, <3>0, <3>2 DEF Advances, At
    <3> QED
      BY <2>1, <2>2, <3>1 DEF Replacing, Is, At, Early
  <2>4. CASE ~(proc.i < Count)
    <3>0. Advances("finish")
      BY <1>11, VerifyEffect
    <3>2. proc.i = Count
      BY <1>0, <2>4, SiteDataConstants
    <3>1. proc'.step = "finish" /\ proc'.committed
      BY <2>1, <2>2, <2>4, <3>0, <3>2 DEF Advances, At
    <3> QED
      BY <2>1, <2>2, <3>1 DEF Replacing, Is, At, Early
  <2> QED
    BY <2>3, <2>4
<1>12. ASSUME Finish PROVE Replacing'
  BY <1>0, <1>12, FinishEffect, SiteDataConstants DEF IInv, Replacing, Attributed,
     Finish, Advances, At, Is, Trees, Payloads, Files, Early
<1>13. ASSUME Final PROVE Replacing'
  BY <1>0, <1>13, FinalEffect, SiteDataConstants DEF IInv, Replacing, Attributed, Final,
     Holds, Advances, At, Is, Trees, Payloads, Files, Early
<1>14. ASSUME Rollback PROVE Replacing'
  BY <1>0, <1>14, RollbackEffect, SiteDataConstants DEF IInv, Replacing, Attributed,
     Rollback, Unlinked, Advances, At, Is, Trees, Payloads, Files, Early
<1>15. ASSUME NEW interrupt \in BOOLEAN, Raise(interrupt) PROVE Replacing'
  <2>1. proc'.step = "rollback" \/ proc'.step = "failed"
    BY <1>15, RaiseEffect
  <2>2. /\ proc'.cmd = proc.cmd /\ proc'.saw = proc.saw /\ proc'.same = proc.same
        /\ proc'.moment = proc.moment /\ proc'.ours = proc.ours /\ proc'.edited = proc.edited
        /\ proc'.committed = proc.committed /\ proc'.i = 1
    BY <1>15, RaiseEffect
  <2>3. tree' = tree /\ archive' = archive /\ killed' = killed
    BY <1>15 DEF Raise

  <2>4. proc'.interrupted = (proc.interrupted \/ interrupt)
          /\ proc'.torn = (proc.torn \/ At("rollback"))
    BY <1>15, RaiseEffect
  <2>5. SUFFICES ASSUME Is("restore") PROVE Replacing'
    BY <2>2 DEF Replacing, Is
  <2>6. CASE Undoing
    <3>1. proc'.step = "rollback"
      BY <1>15, <2>6, RaiseEffect
    <3>2. ~proc.committed
      BY <2>5, <2>6 DEF IInv, Replacing, Undoing, Early, At
    <3>3. \A f \in proc'.ours : f >= proc'.i
      BY <1>0, <2>2 DEF Files
    <3> QED
      BY <2>2, <3>1, <3>2, <3>3 DEF Replacing, Is, At, Early
  <2>7. CASE ~Undoing
    <3>1. proc'.step = "failed"
      BY <1>15, <2>7, RaiseEffect
    <3>2. SUFFICES ASSUME ~proc.committed, ~proc.torn, ~At("rollback"), NEW f \in proc.ours
                   PROVE  proc'.interrupted /\ f = 1
      BY <2>2, <2>4, <3>1 DEF Replacing, Is, At, Early
    <3>3. Running /\ (At("mark") => interrupt)
      BY <1>15 DEF Raise
    <3>4. proc.step \in Steps
      BY <1>0 DEF Process
    <3>5. CASE proc.step \in Early
      BY <2>5, <3>5 DEF IInv, Replacing
    <3>6. CASE proc.step \in {"before", "replace"}
      <4>1. ~proc.replaced
        BY <2>7, <3>6 DEF Undoing
      <4>2. f < proc.i /\ ~(proc.i > 1)
        BY <2>5, <3>6, <4>1 DEF IInv, Replacing
      <4> QED
        BY <1>0, <4>2 DEF Files
    <3>7. CASE At("mark")
      <4>1. ~proc.replaced
        BY <2>7, <3>7 DEF Undoing, At
      <4>2. f <= proc.i /\ ~(proc.i > 1)
        BY <2>5, <3>7, <4>1 DEF IInv, Replacing
      <4>3. f = 1
        BY <1>0, <4>2 DEF Files
      <4> QED
        BY <2>4, <3>3, <3>7, <4>3
    <3>8. CASE At("verify")
      BY <2>5, <2>7, <3>8 DEF IInv, Replacing, Undoing, At
    <3>9. CASE proc.step \in {"finish", "final"}
      BY <2>5, <3>2, <3>9 DEF IInv, Replacing
    <3> QED
      BY <3>2, <3>3, <3>4, <3>5, <3>6, <3>7, <3>8, <3>9 DEF Steps, Running, Ended, Early, At
  <2> QED
    BY <2>6, <2>7
<1>16. ASSUME Kill PROVE Replacing'
  BY <1>0, <1>16, KillEffect, SiteDataConstants DEF IInv, Replacing, Attributed, Kill,
     Running, Advances, At, Is, Trees, Payloads, Files, Early
<1>17. ASSUME Edit PROVE Replacing'
  BY <1>0, <1>17, EditEffect, SiteDataConstants DEF IInv, Replacing, Attributed, Edit,
     Advances, At, Is, Trees, Payloads, Files, Early
<1>18. ASSUME Checkout PROVE Replacing'
  BY <1>0, <1>18, CheckoutEffect, SiteDataConstants DEF IInv, Replacing, Attributed,
     Checkout, Advances, At, Is, Trees, Payloads, Files, Early
<1>19. ASSUME Generate PROVE Replacing'
  BY <1>0, <1>19, GenerateEffect, SiteDataConstants DEF IInv, Replacing, Attributed,
     Generate, Advances, At, Is, Trees, Payloads, Files, Early
<1>20. CASE UNCHANGED vars
  BY <1>20 DEF IInv, Replacing, Attributed, vars, At, Is, Early
<1> QED
  BY <1>1, <1>2, <1>3, <1>4, <1>5, <1>6, <1>7, <1>8, <1>9, <1>10, <1>11, <1>12, <1>13,
     <1>14, <1>15, <1>16, <1>17, <1>18, <1>19, <1>20 DEF Next, Command

\* Every step keeps Unedited.
LEMMA UneditedStep == IInv /\ [Next]_vars => Unedited'
<1> SUFFICES ASSUME IInv, [Next]_vars PROVE Unedited'
  OBVIOUS
<1>0. proc \in Process /\ proc.i \in 1..Count /\ tree \in Trees
        /\ archive \in Payloads \cup {NoArchive}
        /\ proc.same \subseteq Files /\ proc.ours \subseteq Files
        /\ proc.moment \in Trees /\ proc.saw \in Payloads
  BY DEF IInv, TypeOK, Process, Files
<1>1. ASSUME Begin PROVE Unedited'
  BY <1>0, <1>1, BeginEffect, SiteDataConstants DEF IInv, Attributed, Replacing,
     Unedited, Begin, Running, Advances, At, Is, Trees, Payloads, Files, Early
<1>2. ASSUME CheckState PROVE Unedited'
  BY <1>0, <1>2, CheckStateEffect, SiteDataConstants DEF IInv, Attributed, Replacing,
     Unedited, CheckState, Advances, At, Is, Trees, Payloads, Files, Early
<1>3. ASSUME Load PROVE Unedited'
  BY <1>0, <1>3, LoadEffect, SiteDataConstants DEF IInv, Attributed, Replacing, Unedited,
     Load, Advances, At, Is, Trees, Payloads, Files, Early
<1>4. ASSUME CheckAgain PROVE Unedited'
  BY <1>0, <1>4, CheckAgainEffect, SiteDataConstants DEF IInv, Attributed, Replacing,
     Unedited, CheckAgain, Advances, At, Is, Trees, Payloads, Files, Early
<1>5. ASSUME Read PROVE Unedited'
  <2>1. SUFFICES ASSUME Is("restore"), ~proc.edited PROVE Unedited'
    BY <1>5, ReadEffect DEF Unedited, Is
  <2>2. /\ proc'.saw = [proc.saw EXCEPT ![proc.i] = tree[proc.i]]
        /\ proc'.moment = proc.moment
    BY <1>5, <2>1, ReadEffect
  <2>3. tree' = tree /\ tree = proc.moment /\ At("read")
    BY <1>5, <2>1 DEF Read, IInv, Unedited, Early, At
  <2>4. \A f \in Files : f <= proc.i => proc'.saw[f] = proc.moment[f]
    <3>1. \A f \in Files : proc'.saw[f] = IF f = proc.i THEN tree[f] ELSE proc.saw[f]
      BY <1>0, <2>2 DEF Payloads, Files
    <3>2. \A f \in Files : f < proc.i => proc.saw[f] = proc.moment[f]
      BY <2>1, <2>3 DEF IInv, Unedited
    <3>3. \A f \in Files : f <= proc.i => f = proc.i \/ f < proc.i
      BY <1>0 DEF Files
    <3> QED
      BY <2>3, <3>1, <3>2, <3>3
  <2>5. CASE proc.i < Count
    <3>1. proc'.step = "read" /\ proc'.i = proc.i + 1
      BY <1>5, ReadEffect, <2>3, <2>5 DEF Advances, At
    <3>2. \A f \in Files : f < proc'.i => proc'.saw[f] = proc'.moment[f]
      BY <1>0, <2>2, <2>4, <2>5, <3>1 DEF Files
    <3> QED
      BY <2>2, <2>3, <3>1, <3>2 DEF Unedited, Is, At, Early
  <2>6. CASE ~(proc.i < Count)
    <3>1. proc'.step = "stage"
      BY <1>5, ReadEffect, <2>1, <2>3, <2>6 DEF Advances, At
    <3>2. \A f \in Files : proc'.saw[f] = proc'.moment[f]
      BY <1>0, <2>2, <2>4, <2>6, SiteDataConstants DEF Files
    <3>3. proc'.saw = proc'.moment
      BY <1>0, <2>2, <3>2 DEF Payloads, Trees
    <3> QED
      BY <2>2, <2>3, <3>1, <3>3 DEF Unedited, Is, At, Early
  <2> QED
    BY <2>5, <2>6
<1>6. ASSUME Stage PROVE Unedited'
  BY <1>0, <1>6, StageEffect, SiteDataConstants DEF IInv, Attributed, Replacing,
     Unedited, Stage, Advances, At, Is, Trees, Payloads, Files, Early
<1>7. ASSUME CheckUnchanged PROVE Unedited'
  BY <1>0, <1>7, CheckUnchangedEffect, SiteDataConstants DEF IInv, Attributed, Replacing,
     Unedited, CheckUnchanged, Unchanged, Advances, At, Is, Trees, Payloads, Files, Early
<1>8. ASSUME CheckBefore PROVE Unedited'
  BY <1>0, <1>8, CheckBeforeEffect, SiteDataConstants DEF IInv, Attributed, Replacing,
     Unedited, CheckBefore, Holds, Advances, At, Is, Trees, Payloads, Files, Early
<1>9. ASSUME Replace PROVE Unedited'
  BY <1>0, <1>9, ReplaceEffect, SiteDataConstants DEF IInv, Attributed, Replacing,
     Unedited, Replace, Advances, At, Is, Trees, Payloads, Files, Early
<1>10. ASSUME Mark PROVE Unedited'
  BY <1>0, <1>10, MarkEffect, SiteDataConstants DEF IInv, Attributed, Replacing,
     Unedited, Mark, Advances, At, Is, Trees, Payloads, Files, Early
<1>11. ASSUME Verify PROVE Unedited'
  BY <1>0, <1>11, VerifyEffect, SiteDataConstants DEF IInv, Attributed, Replacing,
     Unedited, Verify, Holds, Unlinked, Advances, At, Is, Trees, Payloads, Files, Early
<1>12. ASSUME Finish PROVE Unedited'
  BY <1>0, <1>12, FinishEffect, SiteDataConstants DEF IInv, Attributed, Replacing,
     Unedited, Finish, Advances, At, Is, Trees, Payloads, Files, Early
<1>13. ASSUME Final PROVE Unedited'
  BY <1>0, <1>13, FinalEffect, SiteDataConstants DEF IInv, Attributed, Replacing,
     Unedited, Final, Holds, Advances, At, Is, Trees, Payloads, Files, Early
<1>14. ASSUME Rollback PROVE Unedited'
  <2>1. SUFFICES ASSUME Is("restore"), ~proc.edited PROVE Unedited'
    BY <1>14, RollbackEffect DEF Unedited, Is
  <2>2. At("rollback") /\ tree' = [tree EXCEPT ![proc.i] = proc.saw[proc.i]]
    BY <1>14 DEF Rollback
  <2>3. proc'.moment = proc.moment /\ proc'.saw = proc.saw /\ proc'.committed = proc.committed
    BY <1>14, RollbackEffect
  <2>4. proc.saw = proc.moment /\ ~proc.committed
    BY <2>1, <2>2 DEF IInv, Unedited, Replacing, At
  <2>5. \A f \in Files : f <= proc.i => tree'[f] = proc.moment[f]
    BY <1>0, <2>1, <2>2, <2>4 DEF IInv, Unedited, Trees, Files
  <2>6. CASE proc.i < Count
    <3>1. proc'.step = "rollback" /\ proc'.i = proc.i + 1
      BY <1>14, RollbackEffect, <2>2, <2>6 DEF Advances, At
    <3>2. \A f \in Files : f < proc'.i => tree'[f] = proc'.moment[f]
      BY <1>0, <2>3, <2>5, <2>6, <3>1 DEF Files
    <3> QED
      BY <2>3, <2>4, <3>1, <3>2 DEF Unedited, Is, At, Early
  <2>7. CASE ~(proc.i < Count)
    <3>1. proc'.step = "failed"
      BY <1>14, RollbackEffect, <2>2, <2>7 DEF Advances, At
    <3>2. \A f \in Files : tree'[f] = proc.moment[f]
      BY <1>0, <2>5, <2>7, SiteDataConstants DEF Files
    <3>3. tree' = proc'.moment
      BY <1>0, <2>2, <2>3, <3>2 DEF Trees
    <3> QED
      BY <2>3, <2>4, <3>1, <3>3 DEF Unedited, Is, At, Early
  <2> QED
    BY <2>6, <2>7
<1>15. ASSUME NEW interrupt \in BOOLEAN, Raise(interrupt) PROVE Unedited'
  <2>1. proc'.step = "rollback" \/ proc'.step = "failed"
    BY <1>15, RaiseEffect
  <2>2. /\ proc'.cmd = proc.cmd /\ proc'.saw = proc.saw /\ proc'.same = proc.same
        /\ proc'.moment = proc.moment /\ proc'.ours = proc.ours /\ proc'.edited = proc.edited
        /\ proc'.committed = proc.committed /\ proc'.i = 1
    BY <1>15, RaiseEffect
  <2>3. tree' = tree /\ archive' = archive /\ killed' = killed
    BY <1>15 DEF Raise

  <2>4. proc'.interrupted = (proc.interrupted \/ interrupt)
          /\ proc'.torn = (proc.torn \/ At("rollback"))
    BY <1>15, RaiseEffect
  <2>5. SUFFICES ASSUME Is("restore"), ~proc.edited PROVE Unedited'
    BY <2>2 DEF Unedited, Is
  <2>6. CASE Undoing
    <3>1. proc'.step = "rollback"
      BY <1>15, <2>6, RaiseEffect
    <3>2. proc'.saw = proc'.moment
      BY <2>2, <2>5, <2>6 DEF IInv, Unedited, Undoing
    <3>3. \A f \in Files : f < proc'.i => tree'[f] = proc'.moment[f]
      BY <2>2 DEF Files
    <3> QED
      BY <3>1, <3>2, <3>3 DEF Unedited, Is, At, Early
  <2>7. CASE ~Undoing
    <3>1. proc'.step = "failed"
      BY <1>15, <2>7, RaiseEffect
    <3>2. proc.step \in Steps /\ Running /\ (At("mark") => interrupt)
      BY <1>15, <1>0 DEF Raise, Process
    <3>3. SUFFICES /\ proc.committed => tree = archive
                   /\ ~proc.committed /\ ~proc.torn /\ ~At("rollback") /\ ~proc.interrupted
                        /\ ~interrupt => tree = proc.moment
      BY <2>2, <2>3, <2>4, <3>1 DEF Unedited, Is, At, Early
    <3>4. CASE proc.step \in Early
      BY <2>5, <3>4 DEF IInv, Unedited, Replacing
    <3>5. CASE proc.step \in {"before", "replace"}
      <4>1. ~proc.replaced /\ ~proc.committed
        BY <2>5, <2>7, <3>5 DEF Undoing, IInv, Replacing
      <4>2. ~(proc.i > 1)
        BY <2>5, <3>5, <4>1 DEF IInv, Replacing
      <4>3. \A f \in Files : ~(f < proc.i)
        BY <1>0, <4>2 DEF Files
      <4>4. \A f \in Files : tree[f] = proc.moment[f]
        BY <2>5, <3>5, <4>3 DEF IInv, Unedited
      <4> QED
        BY <1>0, <4>1, <4>4 DEF Trees
    <3>6. CASE At("mark")
      BY <2>5, <3>2, <3>6 DEF IInv, Replacing, At
    <3>7. CASE At("verify")
      BY <2>5, <2>7, <3>7 DEF IInv, Replacing, Undoing, At
    <3>8. CASE proc.step \in {"finish", "final"}
      BY <2>5, <3>8 DEF IInv, Replacing, Unedited
    <3>9. CASE At("rollback")
      BY <2>5, <3>9 DEF IInv, Replacing, At
    <3> QED
      BY <3>2, <3>4, <3>5, <3>6, <3>7, <3>8, <3>9 DEF Steps, Running, Ended, Early, At
  <2> QED
    BY <2>6, <2>7
<1>16. ASSUME Kill PROVE Unedited'
  BY <1>0, <1>16, KillEffect, SiteDataConstants DEF IInv, Attributed, Replacing,
     Unedited, Kill, Running, Advances, At, Is, Trees, Payloads, Files, Early
<1>17. ASSUME Edit PROVE Unedited'
  BY <1>0, <1>17, EditEffect, SiteDataConstants DEF IInv, Attributed, Replacing,
     Unedited, Edit, Advances, At, Is, Trees, Payloads, Files, Early
<1>18. ASSUME Checkout PROVE Unedited'
  BY <1>0, <1>18, CheckoutEffect, SiteDataConstants DEF IInv, Attributed, Replacing,
     Unedited, Checkout, Advances, At, Is, Trees, Payloads, Files, Early
<1>19. ASSUME Generate PROVE Unedited'
  BY <1>0, <1>19, GenerateEffect, SiteDataConstants DEF IInv, Attributed, Replacing,
     Unedited, Generate, Advances, At, Is, Trees, Payloads, Files, Early
<1>20. CASE UNCHANGED vars
  BY <1>20 DEF IInv, Attributed, Replacing, Unedited, vars, At, Is, Early
<1> QED
  BY <1>1, <1>2, <1>3, <1>4, <1>5, <1>6, <1>7, <1>8, <1>9, <1>10, <1>11, <1>12, <1>13,
     <1>14, <1>15, <1>16, <1>17, <1>18, <1>19, <1>20 DEF Next, Command

\* Every step keeps Temporary.
LEMMA TemporaryStep == IInv /\ [Next]_vars => Temporary'
<1> SUFFICES ASSUME IInv, [Next]_vars PROVE Temporary'
  OBVIOUS
<1>0. proc \in Process /\ proc.i \in 1..Count /\ tree \in Trees
        /\ archive \in Payloads \cup {NoArchive}
        /\ proc.same \subseteq Files /\ proc.ours \subseteq Files
        /\ proc.moment \in Trees /\ proc.saw \in Payloads
  BY DEF IInv, TypeOK, Process, Files
<1>1. ASSUME Begin PROVE Temporary'
  BY <1>0, <1>1, BeginEffect, SiteDataConstants DEF IInv, Attributed, Temporary, Begin,
     Running, Advances, At, Is, Trees, Payloads, Files, Running, Ended, Foreign
<1>2. ASSUME CheckState PROVE Temporary'
  BY <1>0, <1>2, CheckStateEffect, SiteDataConstants DEF IInv, Attributed, Temporary,
     CheckState, Advances, At, Is, Trees, Payloads, Files, Running, Ended, Foreign
<1>3. ASSUME Load PROVE Temporary'
  BY <1>0, <1>3, LoadEffect, SiteDataConstants DEF IInv, Attributed, Temporary, Load,
     Advances, At, Is, Trees, Payloads, Files, Running, Ended, Foreign
<1>4. ASSUME CheckAgain PROVE Temporary'
  BY <1>0, <1>4, CheckAgainEffect, SiteDataConstants DEF IInv, Attributed, Temporary,
     CheckAgain, Advances, At, Is, Trees, Payloads, Files, Running, Ended, Foreign
<1>5. ASSUME Read PROVE Temporary'
  BY <1>0, <1>5, ReadEffect, SiteDataConstants DEF IInv, Attributed, Temporary, Read,
     Advances, At, Is, Trees, Payloads, Files, Running, Ended, Foreign
<1>6. ASSUME Stage PROVE Temporary'
  BY <1>0, <1>6, StageEffect, SiteDataConstants DEF IInv, Attributed, Temporary, Stage,
     Advances, At, Is, Trees, Payloads, Files, Running, Ended, Foreign
<1>7. ASSUME CheckUnchanged PROVE Temporary'
  BY <1>0, <1>7, CheckUnchangedEffect, SiteDataConstants DEF IInv, Attributed, Temporary,
     CheckUnchanged, Unchanged, Advances, At, Is, Trees, Payloads, Files, Running, Ended,
     Foreign
<1>8. ASSUME CheckBefore PROVE Temporary'
  BY <1>0, <1>8, CheckBeforeEffect, SiteDataConstants DEF IInv, Attributed, Temporary,
     CheckBefore, Holds, Advances, At, Is, Trees, Payloads, Files, Running, Ended, Foreign
<1>9. ASSUME Replace PROVE Temporary'
  BY <1>0, <1>9, ReplaceEffect, SiteDataConstants DEF IInv, Attributed, Temporary,
     Replace, Advances, At, Is, Trees, Payloads, Files, Running, Ended, Foreign
<1>10. ASSUME Mark PROVE Temporary'
  BY <1>0, <1>10, MarkEffect, SiteDataConstants DEF IInv, Attributed, Temporary, Mark,
     Advances, At, Is, Trees, Payloads, Files, Running, Ended, Foreign
<1>11. ASSUME Verify PROVE Temporary'
  BY <1>0, <1>11, VerifyEffect, SiteDataConstants DEF IInv, Attributed, Temporary,
     Verify, Holds, Unlinked, Advances, At, Is, Trees, Payloads, Files, Running, Ended,
     Foreign
<1>12. ASSUME Finish PROVE Temporary'
  BY <1>0, <1>12, FinishEffect, SiteDataConstants DEF IInv, Attributed, Temporary,
     Finish, Advances, At, Is, Trees, Payloads, Files, Running, Ended, Foreign
<1>13. ASSUME Final PROVE Temporary'
  BY <1>0, <1>13, FinalEffect, SiteDataConstants DEF IInv, Attributed, Temporary, Final,
     Holds, Advances, At, Is, Trees, Payloads, Files, Running, Ended, Foreign
<1>14. ASSUME Rollback PROVE Temporary'
  BY <1>0, <1>14, RollbackEffect, SiteDataConstants DEF IInv, Attributed, Temporary,
     Rollback, Unlinked, Advances, At, Is, Trees, Payloads, Files, Running, Ended, Foreign
<1>15. ASSUME NEW interrupt \in BOOLEAN, Raise(interrupt) PROVE Temporary'
  <2>1. proc'.step = "rollback" \/ proc'.step = "failed"
    BY <1>15, RaiseEffect
  <2>2. /\ proc'.cmd = proc.cmd /\ proc'.saw = proc.saw /\ proc'.same = proc.same
        /\ proc'.moment = proc.moment /\ proc'.ours = proc.ours /\ proc'.edited = proc.edited
        /\ proc'.committed = proc.committed /\ proc'.i = 1
    BY <1>15, RaiseEffect
  <2>3. tree' = tree /\ archive' = archive /\ killed' = killed
    BY <1>15 DEF Raise

  <2>4. CASE Undoing
    <3>1. proc'.step = "rollback" /\ strays' = strays
      BY <1>15, <2>4, RaiseEffect DEF Raise, Undoing
    <3>2. Is("restore")
      BY <2>4 DEF IInv, Attributed, Undoing
    <3>3. Running'
      BY <3>1 DEF Running, Ended
    <3> QED
      BY <2>2, <2>3, <3>1, <3>2, <3>3 DEF IInv, Temporary, Is
  <2>5. CASE ~Undoing
    <3>1. strays' = Unlinked
      BY <1>15, <2>5 DEF Raise, Undoing
    <3> QED
      BY <2>3, <3>1 DEF IInv, Temporary, Unlinked
  <2> QED
    BY <2>4, <2>5
<1>16. ASSUME Kill PROVE Temporary'
  BY <1>0, <1>16, KillEffect, SiteDataConstants DEF IInv, Attributed, Temporary, Kill,
     Running, Advances, At, Is, Trees, Payloads, Files, Running, Ended, Foreign
<1>17. ASSUME Edit PROVE Temporary'
  <2>1. proc'.step = proc.step /\ proc'.cmd = proc.cmd /\ strays' \subseteq strays \cup {Foreign}
        /\ killed' = killed
    BY <1>17, EditEffect DEF Edit
  <2> QED
    BY <2>1 DEF IInv, Temporary, Is, Running
<1>18. ASSUME Checkout PROVE Temporary'
  BY <1>0, <1>18, CheckoutEffect, SiteDataConstants DEF IInv, Attributed, Temporary,
     Checkout, Advances, At, Is, Trees, Payloads, Files, Running, Ended, Foreign
<1>19. ASSUME Generate PROVE Temporary'
  BY <1>0, <1>19, GenerateEffect, SiteDataConstants DEF IInv, Attributed, Temporary,
     Generate, Advances, At, Is, Trees, Payloads, Files, Running, Ended, Foreign
<1>20. CASE UNCHANGED vars
  BY <1>20 DEF IInv, Attributed, Temporary, vars, At, Is, Running, Ended, Foreign
<1> QED
  BY <1>1, <1>2, <1>3, <1>4, <1>5, <1>6, <1>7, <1>8, <1>9, <1>10, <1>11, <1>12, <1>13,
     <1>14, <1>15, <1>16, <1>17, <1>18, <1>19, <1>20 DEF Next, Command

LEMMA InitIInv == Init => IInv
<1> SUFFICES ASSUME Init PROVE IInv
  OBVIOUS
<1>1. Clean \in Payloads /\ Clean \in Trees /\ "pack" \in Commands
  BY SiteDataConstants DEF Clean, Payloads, Trees, Commands
<1>2. TypeOK
  <2>1. proc \in Process
    <3>1. proc = New("pack", "idle") /\ tree = Clean
      BY DEF Init
    <3> QED
      BY <1>1, <3>1, StepNames, FirstFile DEF New, Process
  <2>2. edits \in 0..MaxEdits
    BY SiteDataConstants DEF Init
  <2>3. /\ tree \in Trees /\ strays \subseteq Temporaries \cup {Foreign}
        /\ archive \in Payloads \cup {NoArchive} /\ killed \in BOOLEAN
    BY <1>1 DEF Init
  <2> QED
    BY <2>1, <2>2, <2>3 DEF TypeOK
<1>3. /\ proc.step = "idle" /\ proc.cmd = "pack" /\ proc.same = {} /\ strays = {}
      /\ ~proc.committed
  BY DEF Init, New
<1> QED
  BY <1>2, <1>3 DEF IInv, Attributed, Snapshots, Replacing, Unedited, Temporary, At, Is

LEMMA Invariance == Spec => []IInv
<1>1. IInv /\ [Next]_vars => IInv'
  BY TypeOKStep, AttributedStep, SnapshotsStep, ReplacingStep, UneditedStep, TemporaryStep
     DEF IInv
<1> QED
  BY InitIInv, <1>1, PTL DEF Spec

\* Every state of the model has the shape the steps rely on: the snapshots never hold a missing
\* file, the loops stay within the allowlist (generated_site_data_artifact.py:431-821).
THEOREM TypeCorrect == Spec => []TypeOK
<1>1. IInv => TypeOK
  BY DEF IInv
<1> QED
  BY Invariance, <1>1, PTL

\* What is packed was in the checkout at one moment, whoever writes the files meanwhile, and
\* a verification that passes has found exactly the archive's files so
\* (generated_site_data_artifact.py:435-450, 808-821).
THEOREM ArchivedAtOneMoment == Spec => []ArchiveExact
<1>1. IInv => ArchiveExact
  <2> SUFFICES ASSUME IInv, ~Is("restore"), At("done") PROVE archive = proc.moment
    BY DEF ArchiveExact
  <2>1. \A f \in Files : archive[f] = proc.saw[f] /\ proc.moment[f] = proc.saw[f]
    BY DEF IInv, TypeOK, Process, Commands, Snapshots, Is, At
  <2>2. archive \in [Files -> Contents] /\ proc.moment \in [Files -> Contents \cup {Gone}]
    BY DEF IInv, TypeOK, Attributed, Snapshots, Process, Commands, Payloads, Trees, Is, At
  <2> QED
    BY <2>1, <2>2
<1> QED
  BY Invariance, <1>1, PTL

\* A restore is all or nothing (generated_site_data_artifact.py:738-794).
THEOREM RestoredAllOrNothing == Spec => []AllOrNothing
<1>1. IInv => AllOrNothing
  <2> SUFFICES ASSUME IInv, Is("restore")
               PROVE /\ At("done") /\ ~proc.edited => tree = archive
                     /\ At("failed") /\ proc.committed /\ ~proc.edited => tree = archive
                     /\ At("failed") /\ ~proc.committed /\ ~proc.torn =>
                          /\ proc.ours \subseteq (IF proc.interrupted THEN {1} ELSE {})
                          /\ ~proc.edited /\ ~proc.interrupted => tree = proc.moment
                     /\ ~Running /\ ~killed => strays \cap Temporaries = {}
    BY DEF AllOrNothing
  <2>1. /\ At("done") /\ ~proc.edited => tree = archive
        /\ At("failed") /\ proc.committed /\ ~proc.edited => tree = archive
        /\ At("failed") /\ ~proc.committed /\ ~proc.torn /\ ~proc.edited /\ ~proc.interrupted =>
             tree = proc.moment
    BY DEF IInv, Unedited, At
  <2>2. At("failed") /\ ~proc.committed /\ ~proc.torn =>
          proc.ours \subseteq (IF proc.interrupted THEN {1} ELSE {})
    BY DEF IInv, Replacing, At
  <2>3. ~Running /\ ~killed => strays \cap Temporaries = {}
    BY DEF IInv, Temporary, Temporaries, Foreign
  <2> QED
    BY <2>1, <2>2, <2>3
<1> QED
  BY Invariance, <1>1, PTL

-----------------------------------------------------------------------------
\* The refinement: each step is a step of FileTransfer, or none.
Promised == [Transfer!TransferNext]_Transfer!transferVars

\* Where a command is told apart, by its step
LEMMA Progress ==
  ASSUME proc \in Process
  PROVE  /\ At("idle") => Job = "idle" /\ ~Replaces
         /\ At("done") => Job = "done" /\ ~Replaces /\ Spoilt = proc.edited
         /\ At("failed") => Job = "failed" /\ ~Replaces
         /\ At("killed") => Job = "failed" /\ ~Replaces /\ Spoilt = TRUE
         /\ Running => /\ Job = (IF proc.committed THEN "restored" ELSE proc.cmd)
                       /\ Spoilt = proc.edited
  BY DEF Job, Replaces, Spoilt, Broken, Running, Ended, At, Is, Process

\* The same of the next state
LEMMA ProgressPrimed ==
  ASSUME proc' \in Process
  PROVE  /\ proc'.step = "idle" => Job' = "idle" /\ Visible' = tree'
         /\ proc'.step = "done" => Job' = "done" /\ Visible' = tree' /\ Spoilt' = proc'.edited
         /\ proc'.step = "failed" => Job' = "failed" /\ Visible' = tree'
         /\ proc'.step = "killed" => Job' = "failed" /\ Visible' = tree' /\ Spoilt' = TRUE
         /\ proc'.step \notin Ended =>
              /\ Job' = (IF proc'.committed THEN "restored" ELSE proc'.cmd)
              /\ Spoilt' = proc'.edited
  BY DEF Job, Visible, Replaces, Spoilt, Broken, Running, Ended, At, Is, Process

\* What is seen of the checkout while nothing is replaced, and what a restore that replaces
\* hides
LEMMA Shown ==
    /\ ~Replaces \/ proc.edited => Visible = tree
    /\ Replaces /\ ~proc.edited => Visible = proc.moment
  BY DEF Visible

LEMMA ShownPrimed ==
    /\ ~(proc'.cmd = "restore" /\ proc'.step \in {"before", "replace", "mark", "verify", "rollback"})
         => Visible' = tree'
    /\ proc'.edited => Visible' = tree'
    /\ proc'.cmd = "restore" /\ proc'.step \in {"before", "replace", "mark", "verify", "rollback"}
         /\ ~proc'.edited => Visible' = proc'.moment
  BY DEF Visible, Replaces, Is

\* A step within a command that neither looks, nor writes what can be seen
LEMMA Unseen ==
  ASSUME Visible' = Visible, archive' = archive, proc'.moment = proc.moment, Job' = Job,
         Spoilt' = Spoilt
  PROVE  Promised
  BY DEF Promised, Transfer!transferVars

\* A command begins.
LEMMA BeginPromised == ASSUME IInv, Begin PROVE Promised
<1>1. PICK cmd \in Commands : proc' = New(cmd, "state")
  BY DEF Begin
<1>2. /\ proc'.step = "state" /\ proc'.moment = tree /\ ~proc'.edited /\ ~proc'.committed
      /\ tree' = tree /\ archive' = archive /\ proc'.cmd = cmd
  BY <1>1, BeginEffect DEF Begin, New
<1>3. Job \in {"idle", "done", "failed"} /\ Visible = tree
  BY Progress, Shown DEF Begin, Running, Ended, At, IInv, TypeOK
<1>4. Job' = cmd /\ Spoilt' = FALSE /\ Visible' = tree
  BY <1>2, BeginEffect, ProgressPrimed, ShownPrimed DEF Ended
<1>5. Transfer!IsRestriction(proc'.moment, Visible)
  BY <1>2, <1>3 DEF Transfer!IsRestriction
<1>6. Transfer!Start(cmd)
  BY <1>2, <1>3, <1>4, <1>5 DEF Transfer!Start, Transfer!Over
<1> QED
  BY <1>6 DEF Promised, Transfer!TransferNext, Transfer!Commands, Commands

\* A check, or another step that writes nothing, of a command that has been read out
\* neither its files nor the archive
LEMMA QuietPromised ==
  ASSUME IInv, proc' \in Process, Running, proc'.step \notin Ended,
         proc'.cmd = proc.cmd, proc'.moment = proc.moment, proc'.edited = proc.edited,
         proc'.committed = proc.committed, tree' = tree, archive' = archive,
         Is("restore") /\ ~proc.edited => (Replaces' <=> Replaces) \/ tree = proc.moment
  PROVE  Promised
<1>1. Job' = Job /\ Spoilt' = Spoilt
  BY Progress, ProgressPrimed DEF IInv, TypeOK
<1>2. Visible' = Visible
  BY DEF Visible, Replaces, Is
<1> QED
  BY <1>1, <1>2, Unseen

LEMMA ChecksPromised ==
  ASSUME IInv, CheckState \/ Load \/ CheckAgain \/ Stage \/ CheckUnchanged \/ CheckBefore
  PROVE  Promised
<1>1. CASE CheckState
  BY <1>1, CheckStateEffect, QuietPromised
     DEF CheckState, Running, Ended, At, Is, Replaces, IInv, Unedited, Early
<1>2. CASE Load
  BY <1>2, LoadEffect, QuietPromised
     DEF Load, Running, Ended, At, Is, Replaces, IInv, Unedited, Early
<1>3. CASE CheckAgain
  BY <1>3, CheckAgainEffect, QuietPromised
     DEF CheckAgain, Running, Ended, At, Is, Replaces, IInv, Unedited, Early
<1>4. CASE Stage
  BY <1>4, StageEffect, QuietPromised
     DEF Stage, Advances, Running, Ended, At, Is, Replaces, IInv, Unedited, Early
<1>5. CASE CheckUnchanged
  BY <1>5, CheckUnchangedEffect, QuietPromised
     DEF CheckUnchanged, Advances, Running, Ended, At, Is, Replaces, IInv, Unedited, Early
<1>6. CASE CheckBefore
  BY <1>6, CheckBeforeEffect, QuietPromised
     DEF CheckBefore, Running, Ended, At, Is, Replaces, IInv, Unedited, Early
<1> QED
  BY <1>1, <1>2, <1>3, <1>4, <1>5, <1>6

\* Reading looks at the checkout, unless it is for a restore.
LEMMA ReadPromised == ASSUME IInv, Read PROVE Promised
<1>1. /\ proc' \in Process /\ Running /\ proc'.step \notin Ended /\ proc'.cmd = proc.cmd
      /\ proc'.edited = proc.edited /\ proc'.committed = proc.committed
      /\ proc'.moment = (IF Is("restore") THEN proc.moment ELSE tree)
      /\ tree' = tree /\ archive' = archive /\ At("read")
      /\ proc'.step \in {"read", "stage", "unchanged"}
  BY ReadEffect DEF Read, Advances, Running, Ended, At
<1>2. CASE Is("restore")
  BY <1>1, <1>2, QuietPromised DEF Replaces, At, Is, IInv, Unedited, Early
<1>3. CASE ~Is("restore")
  <2>1. Job = proc.cmd /\ Job' = Job /\ Spoilt' = Spoilt /\ proc.cmd \in {"pack", "verify"}
    BY <1>1, <1>3, Progress, ProgressPrimed
       DEF IInv, TypeOK, Attributed, Process, Commands, Is
  <2>2. Visible = tree /\ Visible' = tree
    BY <1>1, <1>3, Shown, ShownPrimed DEF Replaces, Is
  <2>3. Transfer!IsRestriction(proc'.moment, Visible)
    BY <1>1, <1>3, <2>2 DEF Transfer!IsRestriction
  <2>4. Transfer!Look
    BY <1>1, <2>1, <2>2, <2>3 DEF Transfer!Look
  <2> QED
    BY <2>4 DEF Promised, Transfer!TransferNext
<1> QED
  BY <1>2, <1>3

\* A file is replaced out of sight, or in a checkout in which others write.
LEMMA ReplacePromised == ASSUME IInv, Replace \/ Mark PROVE Promised
<1>1. /\ proc' \in Process /\ Running /\ proc'.step \notin Ended /\ proc'.cmd = proc.cmd
      /\ proc'.edited = proc.edited /\ proc'.committed = proc.committed
      /\ proc'.moment = proc.moment /\ archive' = archive
      /\ proc.step \in {"replace", "mark"} /\ proc'.step \in {"before", "mark", "verify"}
  BY ReplaceEffect, MarkEffect DEF Replace, Mark, Running, Ended, At
<1>2. Is("restore") /\ ~proc.committed
  BY <1>1 DEF IInv, Attributed, Replacing
<1>3. Job' = Job /\ Spoilt' = Spoilt /\ Job = "restore" /\ Spoilt = proc.edited
  BY <1>1, <1>2, Progress, ProgressPrimed DEF IInv, TypeOK, Is
<1>4. CASE proc.edited
  BY <1>1, <1>3, <1>4 DEF Promised, Transfer!TransferNext, Transfer!Struggle
<1>5. CASE ~proc.edited
  <2>1. Visible' = Visible
    BY <1>1, <1>2, <1>5, Shown, ShownPrimed DEF Replaces, Is
  <2> QED
    BY <1>1, <1>3, <2>1, Unseen
<1> QED
  BY <1>4, <1>5

\* All files are there: the last look at them is the moment at which all appear.
LEMMA VerifyPromised == ASSUME IInv, Verify PROVE Promised
<1>1. /\ proc' \in Process /\ Running /\ proc'.step \notin Ended /\ proc'.cmd = proc.cmd
      /\ proc'.edited = proc.edited /\ proc'.committed = (proc.i = Count)
      /\ proc'.moment = proc.moment /\ archive' = archive /\ tree' = tree /\ At("verify")
      /\ proc'.step = IF proc.i < Count THEN "verify" ELSE "finish"
  BY VerifyEffect DEF Verify, Advances, Running, Ended, At
<1>2. Is("restore") /\ ~proc.committed /\ archive # NoArchive
  BY <1>1 DEF IInv, Attributed, Replacing, At, Is
<1>3. proc.i \in 1..Count /\ Count \in Nat
  BY SiteDataConstants DEF IInv, TypeOK, Process, Files
<1>4. CASE proc.i < Count
  <2>1. proc.i # Count
    BY <1>3, <1>4
  <2>2. proc'.committed = proc.committed
    BY <1>1, <1>2, <2>1 DEF IInv, TypeOK, Process
  <2>3. Replaces' <=> Replaces
    BY <1>1, <1>4 DEF Replaces, At, Is
  <2> QED
    BY <1>1, <2>2, <2>3, QuietPromised
<1>5. CASE ~(proc.i < Count)
  <2>1. proc.i = Count
    BY <1>3, <1>5
  <2>2. Job = "restore" /\ Job' = "restored" /\ Spoilt' = Spoilt /\ Spoilt = proc.edited
    BY <1>1, <1>2, <2>1, Progress, ProgressPrimed DEF IInv, TypeOK, Is
  <2>3. Visible' = tree
    BY <1>1, <1>5, ShownPrimed
  <2>4. Visible' = IF Spoilt THEN Visible ELSE archive
    BY <1>1, <1>2, <2>2, <2>3, Shown DEF IInv, Unedited, At
  <2>5. Transfer!Restore
    BY <1>1, <1>2, <2>2, <2>4 DEF Transfer!Restore
  <2> QED
    BY <2>5 DEF Promised, Transfer!TransferNext
<1> QED
  BY <1>4, <1>5

\* The end of a command: pack stores what it has found, verify-restored compares it, and a
\* restore goes on to its last checks.
LEMMA FinishPromised == ASSUME IInv, Finish PROVE Promised
<1>1. /\ proc' \in Process /\ Running /\ At("finish") /\ proc'.cmd = proc.cmd
      /\ proc'.edited = proc.edited /\ proc'.committed = proc.committed
      /\ proc'.moment = proc.moment /\ tree' = tree
      /\ proc'.step = (IF Is("restore") THEN "final" ELSE "done")
      /\ archive' = (IF Is("pack") THEN proc.saw ELSE archive)
  BY FinishEffect DEF Finish, Running, Ended, At
<1>2. CASE Is("restore")
  BY <1>1, <1>2, QuietPromised DEF Replaces, Ended, At, Is
<1>3. CASE ~Is("restore")
  <2>1. /\ Job = proc.cmd /\ Job' = "done" /\ Spoilt' = Spoilt
        /\ Visible = tree /\ Visible' = tree
    BY <1>1, <1>3, Progress, ProgressPrimed, Shown
       DEF IInv, TypeOK, Attributed, Replaces, At, Is
  <2>2. proc.saw = proc.moment
    <3>1. \A f \in Files : proc.moment[f] = proc.saw[f]
      BY <1>1, <1>3 DEF IInv, Snapshots, At, Is
    <3>2. proc.saw \in [Files -> Contents] /\ proc.moment \in [Files -> Contents \cup {Gone}]
      BY DEF IInv, TypeOK, Process, Payloads, Trees
    <3> QED
      BY <3>1, <3>2
  <2>3. CASE Is("pack")
    <3>1. Files \subseteq DOMAIN proc.moment
      BY DEF IInv, TypeOK, Process, Trees
    <3>2. Transfer!Pack
      BY <1>1, <2>1, <2>2, <2>3, <3>1 DEF Transfer!Pack, Is
    <3> QED
      BY <3>2 DEF Promised, Transfer!TransferNext
  <2>4. CASE Is("verify")
    <3>1. archive = proc.saw
      <4>1. \A f \in Files : proc.saw[f] = archive[f]
        BY <1>1, <2>4 DEF IInv, Snapshots, At
      <4>2. archive \in [Files -> Contents] /\ proc.saw \in [Files -> Contents]
        BY <1>1, <1>3, <2>4 DEF IInv, TypeOK, Attributed, Process, Payloads, At, Is
      <4> QED
        BY <4>1, <4>2
    <3>2. ~Is("pack")
      BY <2>4 DEF Is
    <3>3. Transfer!Verify
      BY <1>1, <2>1, <2>2, <2>4, <3>1, <3>2 DEF Transfer!Verify, Is
    <3> QED
      BY <3>3 DEF Promised, Transfer!TransferNext
  <2> QED
    BY <1>3, <2>3, <2>4 DEF IInv, TypeOK, Process, Commands, Is
<1> QED
  BY <1>2, <1>3

LEMMA FinalPromised == ASSUME IInv, Final PROVE Promised
<1>1. /\ proc' \in Process /\ Running /\ At("final") /\ proc'.cmd = proc.cmd
      /\ proc'.edited = proc.edited /\ proc'.committed = proc.committed
      /\ proc'.moment = proc.moment /\ tree' = tree /\ archive' = archive
      /\ proc'.step = IF proc.i < Count THEN "final" ELSE "done"
  BY FinalEffect DEF Final, Advances, Running, Ended, At
<1>2. Is("restore") /\ proc.committed
  BY <1>1 DEF IInv, Attributed, Replacing, At, Is
<1>3. CASE proc.i < Count
  BY <1>1, <1>3, QuietPromised DEF Replaces, Ended, At, Is
<1>4. CASE ~(proc.i < Count)
  <2>1. /\ Job = "restored" /\ Job' = "done" /\ Spoilt' = Spoilt
        /\ Visible = tree /\ Visible' = tree
    BY <1>1, <1>2, <1>4, Progress, ProgressPrimed, Shown DEF IInv, TypeOK, Replaces, At
  <2>2. Transfer!Complete
    BY <1>1, <2>1 DEF Transfer!Complete
  <2> QED
    BY <2>2 DEF Promised, Transfer!TransferNext
<1> QED
  BY <1>3, <1>4

\* The rollback goes on out of sight; at its end all is in sight again, as it was found.
LEMMA RollbackPromised == ASSUME IInv, Rollback PROVE Promised
<1>1. /\ proc' \in Process /\ Running /\ At("rollback") /\ proc'.cmd = proc.cmd
      /\ proc'.edited = proc.edited /\ proc'.committed = proc.committed
      /\ proc'.moment = proc.moment /\ archive' = archive /\ proc'.torn = proc.torn
      /\ proc'.ours = proc.ours \ {proc.i}
      /\ tree' = [tree EXCEPT ![proc.i] = proc.saw[proc.i]]
      /\ proc'.step = IF proc.i < Count THEN "rollback" ELSE "failed"
  BY RollbackEffect DEF Rollback, Advances, Running, Ended, At
<1>2. Is("restore") /\ ~proc.committed
  BY <1>1 DEF IInv, Attributed, Replacing, At, Is
<1>3. Job = "restore" /\ Spoilt = proc.edited
  BY <1>1, <1>2, Progress DEF IInv, TypeOK, Is
<1>4. CASE proc.i < Count
  <2>1. Job' = Job /\ Spoilt' = Spoilt
    BY <1>1, <1>2, <1>3, <1>4, ProgressPrimed DEF Ended, Is
  <2>2. CASE proc.edited
    BY <1>1, <1>3, <2>1, <2>2 DEF Promised, Transfer!TransferNext, Transfer!Struggle
  <2>3. CASE ~proc.edited
    <3>1. Visible' = Visible
      BY <1>1, <1>2, <1>4, <2>3, Shown, ShownPrimed DEF Replaces, At, Is
    <3> QED
      BY <1>1, <2>1, <3>1, Unseen
  <2> QED
    BY <2>2, <2>3
<1>5. CASE ~(proc.i < Count)
  <2>1. Job' = "failed" /\ Visible' = tree'
    BY <1>1, <1>5, ProgressPrimed
  <2>2. CASE Spoilt'
    <3>1. Spoilt' = TRUE
      BY <2>2 DEF Spoilt, Broken
    <3>2. Transfer!Break
      BY <1>1, <1>3, <2>1, <3>1 DEF Transfer!Break, Transfer!Over
    <3> QED
      BY <3>2 DEF Promised, Transfer!TransferNext
  <2>3. CASE ~Spoilt'
    <3>1. ~proc.edited /\ Spoilt' = Spoilt
      BY <1>1, <1>3, <2>3 DEF Spoilt, Broken, IInv, TypeOK, Process
    <3>2. Visible = proc.moment
      BY <1>1, <1>2, <3>1, Shown DEF Replaces, At
    <3>3. tree' = proc.moment
      <4>1. proc.saw = proc.moment /\ \A f \in Files : f < proc.i => tree[f] = proc.moment[f]
        BY <1>1, <1>2, <3>1 DEF IInv, Unedited, At
      <4>2. \A f \in Files : f = proc.i \/ f < proc.i
        BY <1>5, SiteDataConstants DEF IInv, TypeOK, Process, Files
      <4>3. tree \in Trees /\ proc.moment \in Trees /\ proc.i \in Files
        BY DEF IInv, TypeOK, Process
      <4> QED
        BY <1>1, <4>1, <4>2, <4>3 DEF Trees
    <3>4. Transfer!Fail
      BY <1>1, <1>3, <2>1, <3>1, <3>2, <3>3 DEF Transfer!Fail, Transfer!Over
    <3> QED
      BY <3>4 DEF Promised, Transfer!TransferNext
  <2> QED
    BY <2>2, <2>3
<1> QED
  BY <1>4, <1>5

\* A command that fails changes nothing in sight.
LEMMA FailsInSight ==
  ASSUME ~Transfer!Over, Job' = "failed", Visible' = Visible, archive' = archive,
         proc'.moment = proc.moment, Spoilt' = Spoilt \/ Spoilt' = TRUE
  PROVE  Promised
<1>1. CASE Spoilt' = Spoilt
  BY <1>1 DEF Promised, Transfer!TransferNext, Transfer!Fail
<1>2. CASE Spoilt' = TRUE
  BY <1>2 DEF Promised, Transfer!TransferNext, Transfer!Break
<1> QED
  BY <1>1, <1>2

\* A running command is not over.
LEMMA RunningJob == ASSUME IInv, Running PROVE ~Transfer!Over
<1>1. Job \in {"restored", "pack", "restore", "verify"}
  BY Progress DEF IInv, TypeOK, Process, Commands
<1> QED
  BY <1>1 DEF Transfer!Over

\* An error is followed by the rollback, out of sight, or leaves the files as they are seen,
\* unless it strikes between the first os.replace and its flag, or in the rollback.
LEMMA RaisePromised == ASSUME IInv, NEW interrupt \in BOOLEAN, Raise(interrupt) PROVE Promised
<1>1. /\ proc' \in Process /\ Running /\ proc'.cmd = proc.cmd /\ proc'.edited = proc.edited
      /\ proc'.committed = proc.committed /\ proc'.moment = proc.moment
      /\ proc'.ours = proc.ours /\ tree' = tree /\ archive' = archive
      /\ proc'.interrupted = (proc.interrupted \/ interrupt)
      /\ proc'.torn = (proc.torn \/ At("rollback"))
      /\ proc'.step = (IF Undoing THEN "rollback" ELSE "failed")
      /\ At("mark") => interrupt
  BY RaiseEffect DEF Raise
<1>2. CASE Undoing
  <2>1. Is("restore") /\ Replaces
    BY <1>2 DEF Undoing, Replaces, IInv, Attributed
  <2>2. Replaces'
    BY <1>1, <1>2, <2>1 DEF Replaces, Is
  <2> QED
    BY <1>1, <1>2, <2>1, <2>2, QuietPromised DEF Ended
<1>3. CASE ~Undoing
  <2>1. /\ ~Transfer!Over /\ Job' = "failed" /\ Visible' = tree /\ Spoilt = proc.edited
        /\ proc'.step = "failed"
    BY <1>1, <1>3, RunningJob, Progress, ProgressPrimed DEF IInv, TypeOK
  <2>2. proc.edited => Spoilt' = TRUE
    BY <1>1 DEF Spoilt
  <2>3. Spoilt' = Spoilt \/ Spoilt' = TRUE
    <3>1. Spoilt' \in BOOLEAN
      BY DEF Spoilt
    <3>2. proc.edited \in BOOLEAN
      BY DEF IInv, TypeOK, Process
    <3> QED
      BY <2>1, <2>2, <3>1, <3>2
  <2>4. CASE proc.edited \/ ~Replaces
    BY <1>1, <2>1, <2>3, <2>4, Shown, FailsInSight
  <2>5. CASE ~proc.edited /\ Replaces
    <3>1. Job = "restore" /\ ~proc.committed /\ Visible = proc.moment /\ Is("restore")
      BY <1>1, <2>5, Progress, Shown DEF IInv, TypeOK, Replacing, Replaces, Is
    <3>2. CASE At("rollback") \/ At("mark")
      <4>1. Broken'
        <5>1. CASE At("rollback")
          BY <1>1, <2>1, <5>1 DEF Broken, At
        <5>2. CASE At("mark")
          <6>1. ~(proc.i > 1) /\ proc.i \in 1..Count
            BY <1>3, <3>1, <5>2 DEF Undoing, IInv, TypeOK, Process, Files, Replacing, At
          <6>2. proc.i \in proc.ours /\ proc.ours \subseteq 1..Count
                /\ \A f \in proc.ours : f <= proc.i
            BY <2>5, <3>1, <5>2 DEF IInv, TypeOK, Process, Files, Replacing, Unedited
          <6>3. proc.ours = {1}
            BY <6>1, <6>2, SiteDataConstants
          <6> QED
            BY <1>1, <2>1, <3>1, <5>2, <6>3 DEF Broken, At
        <5> QED
          BY <3>2, <5>1, <5>2
      <4>2. Spoilt' = TRUE
        BY <4>1 DEF Spoilt
      <4> QED
        BY <1>1, <2>1, <3>1, <4>2 DEF Promised, Transfer!TransferNext, Transfer!Break
    <3>3. CASE proc.step \in {"before", "replace"}
      <4>1. ~(proc.i > 1)
        BY <1>3, <3>1, <3>3 DEF Undoing, IInv, Replacing
      <4>2. \A f \in Files : ~(f < proc.i)
        BY <4>1 DEF IInv, TypeOK, Process, Files
      <4>3. \A f \in Files : tree[f] = proc.moment[f]
        BY <2>5, <3>1, <3>3, <4>2 DEF IInv, Unedited
      <4>4. tree = proc.moment
        BY <4>3 DEF IInv, TypeOK, Process, Trees
      <4> QED
        BY <1>1, <2>1, <2>3, <3>1, <4>4, FailsInSight
    <3>4. ~At("verify")
      BY <1>3, <3>1 DEF Undoing, IInv, Replacing, At
    <3> QED
      BY <2>5, <3>2, <3>3, <3>4 DEF Replaces, At
  <2> QED
    BY <2>4, <2>5
<1> QED
  BY <1>2, <1>3

\* A kill shows what is there.
LEMMA KillPromised == ASSUME IInv, Kill PROVE Promised
<1>1. /\ ~Transfer!Over /\ Job' = "failed" /\ Visible' = tree /\ Spoilt' = TRUE
      /\ proc'.moment = proc.moment /\ tree' = tree /\ archive' = archive /\ Running
  BY KillEffect, RunningJob, ProgressPrimed DEF Kill
<1>2. CASE Replaces
  <2>1. Job = "restore"
    BY <1>1, <1>2, Progress DEF Replaces, IInv, TypeOK, Replacing, Is
  <2> QED
    BY <1>1, <2>1 DEF Promised, Transfer!TransferNext, Transfer!Break
<1>3. CASE ~Replaces
  BY <1>1, <1>3, Shown, FailsInSight
<1> QED
  BY <1>2, <1>3

\* Somebody writes: one file changes, or the half-done replacement comes in sight.
LEMMA EditPromised == ASSUME IInv, Edit PROVE Promised
<1>1. /\ proc' \in Process /\ proc'.step = proc.step /\ proc'.edited /\ proc'.cmd = proc.cmd
      /\ proc'.moment = proc.moment /\ proc'.committed = proc.committed /\ archive' = archive
  BY EditEffect DEF Edit
<1>2. Job' = Job /\ Spoilt' = TRUE /\ Visible' = tree'
  BY <1>1, ShownPrimed DEF Job, Running, At, Spoilt
<1>3. CASE Job = "restore"
  BY <1>1, <1>2, <1>3 DEF Promised, Transfer!TransferNext, Transfer!Meddle
<1>4. CASE Job # "restore"
  <2>1. Visible = tree
    <3>1. Replaces => Running /\ Is("restore") /\ ~proc.committed
      BY DEF Replaces, Running, Ended, IInv, Replacing
    <3> QED
      BY <1>4, <3>1, Progress, Shown DEF IInv, TypeOK, Is
  <2>2. PICK f \in Files : \A g \in Files \ {f} : tree'[g] = tree[g]
    BY FirstFile DEF Edit, IInv, TypeOK, Trees
  <2>3. DOMAIN tree = Files /\ DOMAIN tree' = Files
    BY DEF Edit, IInv, TypeOK, Trees
  <2> QED
    BY <1>1, <1>2, <2>1, <2>2, <2>3 DEF Promised, Transfer!TransferNext, Transfer!Meddle
<1> QED
  BY <1>3, <1>4

\* Between commands there is another checkout, or other files are generated in it.
LEMMA PreparePromised == ASSUME IInv, Checkout \/ Generate PROVE Promised
<1>1. /\ proc' \in Process /\ proc'.step = "idle" /\ ~Running /\ archive' = archive
  BY CheckoutEffect, GenerateEffect DEF Checkout, Generate
<1>2. Job' = "idle"
  BY <1>1, ProgressPrimed
<1>3. Transfer!Over
  BY <1>1, Progress DEF Transfer!Over, Running, Ended, At, IInv, TypeOK
<1> QED
  BY <1>1, <1>2, <1>3 DEF Promised, Transfer!TransferNext, Transfer!Prepare

\* Each step of the commands, of others and of what may befall them is one of FileTransfer, or
\* none: whoever leaves the commands alone sees all of an archive's files appear at once, or
\* none of them (generated_site_data_artifact.py:435-464, 738-821).
THEOREM ImplementsTransfer == Spec => TransferRefined
<1>1. Init => Transfer!TransferInit
  BY DEF Init, New, Transfer!TransferInit, Job, Spoilt, Broken, Running, Ended, At
<1>2. ASSUME IInv, [Next]_vars PROVE Promised
  <2>1. CASE UNCHANGED vars
    BY <2>1 DEF Promised, Transfer!transferVars, vars, Visible, Replaces, Job, Spoilt, Broken,
                Running, At, Is
  <2>2. CASE Command
    BY <1>2, <2>2, ChecksPromised, ReadPromised, ReplacePromised, VerifyPromised,
       FinishPromised, FinalPromised, RollbackPromised, RaisePromised DEF Command
  <2> QED
    BY <1>2, <2>1, <2>2, BeginPromised, KillPromised, EditPromised, PreparePromised DEF Next
<1> QED
  BY <1>1, <1>2, Invariance, PTL DEF Spec, TransferRefined, Transfer!TransferSpec, Promised
=============================================================================
