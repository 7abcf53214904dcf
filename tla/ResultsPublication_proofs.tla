----------------------- MODULE ResultsPublication_proofs -----------------------
(***************************************************************************)
(* Proofs about ResultsPublication, for every number of packages, of cycles, *)
(* of writes by others and of changes to what is registered.                 *)
(*                                                                         *)
(* The first part is about TestResultsArtifact alone: ArtifactInv says what   *)
(* each step of pack, restore and verify-restored knows of the files of the   *)
(* checkout, and of those it has changed, whoever else writes in it.  Then    *)
(* StageInv says what promote has put where, and PublicationInv what is       *)
(* recorded of each row on its way from the commit and the staging directory  *)
(* into the draft.                                                           *)
(***************************************************************************)
EXTENDS ResultsPublication, WellFoundedInduction, TLAPS

-----------------------------------------------------------------------------
\* The files of a checkout, or of an artifact
Tree(f) == f = [x \in DOMAIN f |-> f[x]] /\ DOMAIN f \subseteq Paths

\* A command's own state
Proc(p) ==
    p \in [cmd : {p.cmd}, step : {p.step}, todo : {p.todo}, paths : {p.paths}, saw : {p.saw},
           same : {p.same}, stuck : {p.stuck}, ours : {p.ours}, gone : {p.gone},
           moment : {p.moment}, edited : {p.edited}, committed : {p.committed},
           torn : {p.torn}]

RestoreOnly == {"again", "discover", "stage", "stale", "unlink", "replace", "recheck",
                "compare", "final"} \cup RollingBack
Before == {"idle", "state", "load", "again", "discover"}
AfterRead == (Trying \cup RollingBack) \cup {"final", "finish", "done"}
Loaded == AfterRead \cup {"again", "discover", "read"}

ArtifactTypes ==
    /\ Tree(tree) /\ Tree(base) /\ Proc(proc) /\ Tree(proc.saw) /\ Tree(proc.moment)
    /\ archive # NoArchive => Tree(archive.files) /\ DOMAIN archive.files # {}
    /\ proc.cmd \in Commands /\ proc.step \in Steps /\ proc.paths \subseteq Paths
    /\ strays \subseteq Temporaries \cup Foreign
    /\ killed \in BOOLEAN /\ edits \in 0..MaxEdits

\* Which command is at which step, and what its loops have left to do
Attributed ==
    /\ proc.step \in RestoreOnly => Is("restore")
    /\ At("finish") => ~Is("restore")
    /\ At("idle") => Is("pack")
    /\ At("load") => ~Is("pack")
    /\ ~Is("pack") /\ proc.step \in Loaded => archive # NoArchive
    /\ proc.same \subseteq DOMAIN proc.saw /\ DOMAIN proc.saw \subseteq proc.paths
    /\ proc.step \in Before => DOMAIN proc.saw = {}
    /\ proc.step \in AfterRead \cup {"load", "read"} => Index \in proc.paths
    /\ At("read") => /\ proc.todo # {} /\ proc.todo \subseteq proc.paths
                     /\ proc.paths \ proc.todo \subseteq DOMAIN proc.saw
    /\ proc.step \in AfterRead => DOMAIN proc.saw = proc.paths
    /\ proc.step \in {"stage", "replace"} =>
         proc.todo # {} /\ proc.todo \subseteq DOMAIN archive.files
    /\ proc.step \in {"stale", "unlink"} => proc.todo # {} /\ proc.todo \subseteq Stale
    /\ At("rewrite") => proc.todo # {} /\ proc.todo \subseteq DOMAIN proc.saw

\* A file of the snapshots was there at that moment.
Stood(x) == x \in DOMAIN proc.moment /\ proc.moment[x] = proc.saw[x]

\* A file whose fingerprint is the snapshot's holds the snapshot, now and, after the reads,
\* at the moment they ended; so does every file that has been looked at again.
Snapshots ==
    /\ \A x \in proc.same : x \in Present /\ tree[x] = proc.saw[x]
    /\ ~Is("restore") =>
         /\ \A x \in proc.same : Stood(x)
         /\ At("unchanged") => \A x \in proc.paths \ proc.todo : Stood(x)
         /\ proc.step \in {"finish", "done"} => \A x \in proc.paths : Stood(x)
    /\ Is("verify") =>
         /\ \A x \in DOMAIN proc.saw : proc.saw[x] = archive.files[x]
         /\ proc.step \in {"read", "unchanged", "finish", "done"} =>
              proc.paths = DOMAIN archive.files /\ archive.base = base
    /\ Is("pack") /\ At("done") => archive.files = proc.saw

\* What a command that only reads finds, whoever else writes
Reading ==
    ~Is("restore") =>
        /\ ~proc.edited /\ ~At("idle") => tree = proc.moment
        /\ proc.step \in {"load", "read", "unchanged", "finish", "done"} =>
             \A x \in Present \ proc.paths : tree[x] = Junk
        /\ \A x \in Present \cap DOMAIN proc.saw : tree[x] \in {Junk, proc.saw[x]}
        /\ At("done") /\ ~proc.edited => Present = proc.paths

\* What a restore has written and removed, whoever else writes, and, if nobody does, what
\* the whole checkout holds
Early == {"state", "load", "again", "discover", "read", "stage", "unchanged"}
Restoring ==
    Is("restore") /\ ~proc.torn =>
        /\ proc.ours \subseteq Present /\ proc.gone \subseteq DOMAIN proc.saw
        /\ proc.step \in Early => proc.ours = {} /\ proc.gone = {}
        /\ proc.step \in {"stale", "unlink"} => proc.ours = {}
        /\ At("clear") => proc.ours \subseteq proc.todo \cup {Index}
        /\ At("rewrite") => proc.ours \subseteq proc.todo /\ proc.gone \subseteq proc.todo
        /\ At("failed") /\ ~proc.committed => proc.ours = {} /\ proc.gone = {}
        /\ proc.step \in Early \cup (Trying \cup RollingBack) => ~proc.committed
        /\ proc.step \in {"final", "done"} => proc.committed

Untouched ==
    Is("restore") /\ ~proc.torn /\ ~proc.edited =>
        /\ proc.step \in Early => tree = proc.moment
        /\ proc.step \in {"load", "again", "read"} \cup AfterRead => proc.paths = DOMAIN proc.moment
        /\ \A x \in DOMAIN proc.saw : proc.saw[x] = proc.moment[x]
        /\ proc.step \in {"stale", "unlink"} =>
             /\ proc.gone \cup proc.todo = Stale /\ proc.gone \cap proc.todo = {}
             /\ Present = proc.paths \ proc.gone
             /\ \A x \in Present : tree[x] = proc.moment[x]
        /\ At("replace") =>
             /\ Present = (proc.paths \cap DOMAIN archive.files)
                            \cup (DOMAIN archive.files \ proc.todo)
             /\ \A x \in DOMAIN archive.files \ proc.todo : tree[x] = archive.files[x]
        /\ proc.step \in {"recheck", "compare", "final", "done"} => tree = archive.files
        /\ At("clear") => Present \subseteq proc.todo \cup {Index}
        /\ At("rewrite") =>
             /\ Present \subseteq {Index} \cup (DOMAIN proc.saw \ proc.todo)
             /\ \A x \in DOMAIN proc.saw \ proc.todo : x \in Present /\ tree[x] = proc.saw[x]
        /\ At("failed") => tree = IF proc.committed THEN archive.files ELSE proc.moment

\* Only a restore makes temporary files, and it takes them away.
Temporary ==
    /\ At("idle") => \A s \in strays : s[1] = "foreign"
    /\ Is("restore") /\ ~killed /\ ~proc.torn =>
        \A s \in strays : s[1] # "foreign" =>
            /\ s[1] = "staged" /\ s[2] \in DOMAIN archive.files
            /\ proc.step \in {"stage", "unchanged", "stale", "unlink", "replace"}
            /\ At("replace") => s[2] \in proc.todo

ArtifactInv ==
    ArtifactTypes /\ Attributed /\ Snapshots /\ Reading /\ Restoring /\ Untouched /\ Temporary

-----------------------------------------------------------------------------
\* A set of paths has a least member.
LEMMA MinIn ==
  ASSUME NEW S, S \subseteq Nat, S # {}
  PROVE  Min(S) \in S
<1>1. \E x \in S : \A y \in S : ~ (<<y, x>> \in OpToRel(<, Nat))
  BY NatLessThanWellFounded, WFMin
<1>2. PICK x \in S : \A y \in S : ~ (<<y, x>> \in OpToRel(<, Nat))
  BY <1>1
<1>3. \A y \in S : ~ (y < x)
  BY <1>2, Zenon DEF OpToRel
<1>4. \A y \in S : x <= y
  BY <1>3
<1> QED
  BY <1>4 DEF Min

LEMMA MaxIn ==
  ASSUME NEW n \in Nat, NEW S, S \subseteq 0..n, S # {}
  PROVE  Max(S) \in S
<1> DEFINE T == {y \in 0..n : n - y \in S}
<1>1. T \subseteq Nat /\ T # {}
  <2>1. PICK z \in S : TRUE
    OBVIOUS
  <2>2. n - z \in T
    BY <2>1
  <2>3. T \subseteq Nat
    OBVIOUS
  <2> QED
    BY <2>2, <2>3
<1>2. \E x \in T : \A y \in T : ~ (<<y, x>> \in OpToRel(<, Nat))
  BY <1>1, NatLessThanWellFounded, WFMin
<1>3. PICK x \in T : \A y \in T : ~ (<<y, x>> \in OpToRel(<, Nat))
  BY <1>2
<1>4. \A y \in T : ~ (y < x)
  BY <1>3, <1>1, Zenon DEF OpToRel
<1>5. n - x \in S /\ \A z \in S : n - x >= z
  <2>1. \A z \in S : n - z \in T
    OBVIOUS
  <2> QED
    BY <1>4, <2>1
<1> QED
  BY <1>5 DEF Max

LEMMA PathsAreNumbers == Paths \subseteq Nat /\ Index \in Paths
  BY ArtifactConstants DEF Paths, Index

\* One more file, or fewer
LEMMA PutOK ==
  \A f, x, v :
     /\ DOMAIN Put(f, x, v) = DOMAIN f \cup {x}
     /\ Put(f, x, v)[x] = v
     /\ \A y \in DOMAIN f : y # x => Put(f, x, v)[y] = f[y]
  BY DEF Put

LEMMA RestrictOK ==
  ASSUME NEW f, NEW S
  PROVE  /\ DOMAIN Restrict(f, S) = S
         /\ \A y \in S : Restrict(f, S)[y] = f[y]
         /\ Restrict(f, S) = [y \in S |-> f[y]]
  BY DEF Restrict

LEMMA NoFilesOK == DOMAIN NoFiles = {} /\ Tree(NoFiles)
  BY DEF NoFiles, Tree

LEMMA PutTree ==
  ASSUME NEW f, Tree(f), NEW x \in Paths, NEW v
  PROVE  Tree(Put(f, x, v))
<1> DEFINE g == Put(f, x, v)
<1>1. g = [y \in DOMAIN f \cup {x} |-> g[y]] /\ DOMAIN g = DOMAIN f \cup {x}
  BY DEF Put
<1> HIDE DEF g
<1>2. DOMAIN g \subseteq Paths
  BY <1>1 DEF Tree
<1>3. Tree(g)
  BY <1>1, <1>2 DEF Tree
<1> QED
  BY <1>3 DEF g

LEMMA RestrictTree ==
  ASSUME NEW f, Tree(f), NEW S \in SUBSET DOMAIN f
  PROVE  Tree(Restrict(f, S))
  BY RestrictOK DEF Tree

\* The checkout after a write, and after a removal
LEMMA WithOK ==
  ASSUME Tree(tree), NEW x \in Paths, NEW v
  PROVE  /\ Tree(With(x, v)) /\ DOMAIN With(x, v) = Present \cup {x} /\ With(x, v)[x] = v
         /\ \A y \in Present : y # x => With(x, v)[y] = tree[y]
<1>1. With(x, v) = Put(tree, x, v)
  BY DEF With
<1>2. Tree(Put(tree, x, v))
  BY PutTree
<1>3. DOMAIN Put(tree, x, v) = DOMAIN tree \cup {x}
  BY PutOK
<1>4. Put(tree, x, v)[x] = v
  BY PutOK
<1>5. \A y \in DOMAIN tree : y # x => Put(tree, x, v)[y] = tree[y]
  BY PutOK
<1> QED
  BY <1>1, <1>2, <1>3, <1>4, <1>5 DEF Present

LEMMA WithoutOK ==
  ASSUME Tree(tree), NEW x
  PROVE  /\ Tree(Without(x)) /\ DOMAIN Without(x) = Present \ {x}
         /\ \A y \in Present : y # x => Without(x)[y] = tree[y]
<1>1. Present \ {x} \in SUBSET DOMAIN tree
  BY DEF Present
<1> QED
  BY <1>1, RestrictTree, RestrictOK DEF Without, Present

\* Two trees with the same files are the same.
LEMMA SameTree ==
  ASSUME NEW f, Tree(f), NEW g, Tree(g), DOMAIN f = DOMAIN g, \A x \in DOMAIN f : f[x] = g[x]
  PROVE  f = g
<1>1. f = [x \in DOMAIN f |-> f[x]] /\ g = [x \in DOMAIN f |-> g[x]]
  BY DEF Tree
<1>2. [x \in DOMAIN f |-> f[x]] = [x \in DOMAIN f |-> g[x]]
  OBVIOUS
<1> QED
  BY <1>1, <1>2

\* A jump changes the step and what is to do.
LEMMA GotoOK ==
  ASSUME NEW p, Proc(p), NEW step, NEW todo
  PROVE  /\ Proc(Goto(p, step, todo))
         /\ Goto(p, step, todo).step = step /\ Goto(p, step, todo).todo = todo
         /\ Goto(p, step, todo).cmd = p.cmd
         /\ Goto(p, step, todo).paths = p.paths
         /\ Goto(p, step, todo).saw = p.saw
         /\ Goto(p, step, todo).same = p.same
         /\ Goto(p, step, todo).stuck = p.stuck
         /\ Goto(p, step, todo).ours = p.ours
         /\ Goto(p, step, todo).gone = p.gone
         /\ Goto(p, step, todo).moment = p.moment
         /\ Goto(p, step, todo).edited = p.edited
         /\ Goto(p, step, todo).committed = p.committed /\ Goto(p, step, todo).torn = p.torn
  BY DEF Goto, Proc

-----------------------------------------------------------------------------
\* What a command's step leaves alone of its own state
Kept(q, p) ==
    /\ q.cmd = p.cmd /\ q.paths = p.paths /\ q.saw = p.saw /\ q.moment = p.moment
    /\ q.stuck = p.stuck /\ q.edited = p.edited /\ q.torn = p.torn
Marked(q, p) == q.same = p.same /\ q.ours = p.ours /\ q.gone = p.gone /\ q.committed = p.committed

\* A loop goes on, or over to the next step.
Advances(x, next, todo) ==
    /\ proc.todo = {x} => proc'.step = next /\ proc'.todo = todo
    /\ proc.todo # {x} => proc'.step = proc.step /\ proc'.todo = proc.todo \ {x}

\* What a jump and a loop do, in these terms
LEMMA GotoEffect ==
  ASSUME NEW p, Proc(p), NEW step, NEW todo
  PROVE  /\ Proc(Goto(p, step, todo)) /\ Kept(Goto(p, step, todo), p)
         /\ Marked(Goto(p, step, todo), p)
         /\ Goto(p, step, todo).step = step /\ Goto(p, step, todo).todo = todo
  BY GotoOK DEF Kept, Marked

LEMMA LoopEffect ==
  ASSUME NEW p, Proc(p), NEW x, NEW next, NEW todo
  PROVE  /\ Proc(Loop(x, p, next, todo)) /\ Kept(Loop(x, p, next, todo), p)
         /\ Marked(Loop(x, p, next, todo), p)
         /\ p.todo = {x} => Loop(x, p, next, todo).step = next /\ Loop(x, p, next, todo).todo = todo
         /\ p.todo # {x} =>
              Loop(x, p, next, todo).step = p.step /\ Loop(x, p, next, todo).todo = p.todo \ {x}
<1> DEFINE q == Loop(x, p, next, todo)
<1>1. CASE p.todo = {x}
  <2>1. q = Goto(p, next, todo)
    BY <1>1 DEF Loop
  <2> QED
    BY <1>1, <2>1, GotoEffect
<1>2. CASE p.todo # {x}
  <2>1. q = [p EXCEPT !.todo = @ \ {x}]
    BY <1>2 DEF Loop
  <2> QED
    BY <1>2, <2>1 DEF Proc, Kept, Marked
<1> QED
  BY <1>1, <1>2

\* A command begins.
LEMMA NewEffect ==
  ASSUME NEW cmd, NEW step
  PROVE  LET p == New(cmd, step) IN
         /\ Proc(p) /\ p.cmd = cmd /\ p.step = step /\ p.todo = {} /\ p.paths = {}
         /\ p.saw = NoFiles /\ p.same = {} /\ p.ours = {} /\ p.gone = {} /\ p.moment = tree
         /\ ~p.edited /\ ~p.committed /\ ~p.torn
  BY DEF New, Proc

LEMMA CheckStateEffect ==
  ASSUME Proc(proc), CheckState
  PROVE  /\ Proc(proc') /\ Marked(proc', proc)
         /\ proc'.step = (IF Is("pack") THEN "read" ELSE "load")
         /\ proc'.todo = Present /\ proc'.paths = Present
         /\ proc'.cmd = proc.cmd /\ proc'.saw = proc.saw /\ proc'.moment = proc.moment
         /\ proc'.edited = proc.edited /\ proc'.torn = proc.torn
  BY GotoOK DEF CheckState, Marked, Proc

LEMMA LoadEffect ==
  ASSUME Proc(proc), Load
  PROVE  /\ Proc(proc') /\ Kept(proc', proc) /\ Marked(proc', proc)
         /\ proc'.step = (IF Is("restore") THEN "again" ELSE "read") /\ proc'.todo = proc.paths
  BY GotoEffect DEF Load

LEMMA CheckAgainEffect ==
  ASSUME Proc(proc), CheckAgain
  PROVE  /\ Proc(proc') /\ Kept(proc', proc) /\ Marked(proc', proc)
         /\ proc'.step = "discover" /\ proc'.todo = {}
  BY GotoEffect DEF CheckAgain

LEMMA DiscoverEffect ==
  ASSUME Proc(proc), Discover
  PROVE  /\ Proc(proc') /\ Marked(proc', proc)
         /\ proc'.step = "read" /\ proc'.todo = Present /\ proc'.paths = Present
         /\ proc'.cmd = proc.cmd /\ proc'.saw = proc.saw /\ proc'.moment = proc.moment
         /\ proc'.edited = proc.edited /\ proc'.torn = proc.torn
  BY GotoOK DEF Discover, Marked, Proc

LEMMA ReadEffect ==
  ASSUME Proc(proc), Read, NEW x, x = Min(proc.todo)
  PROVE  /\ Proc(proc')
         /\ Is("restore") => Advances(x, "stage", DOMAIN archive.files)
         /\ ~Is("restore") => Advances(x, "unchanged", proc.paths)
         /\ proc'.saw = Put(proc.saw, x, tree[x]) /\ proc'.same = proc.same \cup {x}
         /\ proc'.moment = (IF Is("restore") THEN proc.moment ELSE tree)
         /\ proc'.cmd = proc.cmd /\ proc'.paths = proc.paths /\ proc'.ours = proc.ours
         /\ proc'.gone = proc.gone /\ proc'.edited = proc.edited
         /\ proc'.committed = proc.committed /\ proc'.torn = proc.torn
<1> DEFINE p == [proc EXCEPT !.saw = Put(@, x, tree[x]), !.same = @ \cup {x},
                             !.moment = IF Is("restore") THEN @ ELSE tree]
<1>1. /\ Proc(p) /\ p.step = proc.step /\ p.todo = proc.todo
      /\ p.saw = Put(proc.saw, x, tree[x]) /\ p.same = proc.same \cup {x}
      /\ p.moment = (IF Is("restore") THEN proc.moment ELSE tree)
      /\ p.cmd = proc.cmd /\ p.paths = proc.paths /\ p.ours = proc.ours /\ p.gone = proc.gone
      /\ p.edited = proc.edited /\ p.committed = proc.committed /\ p.torn = proc.torn
  BY DEF Proc
<1>2. proc' = IF Is("restore") THEN Loop(x, p, "stage", DOMAIN archive.files)
              ELSE Loop(x, p, "unchanged", proc.paths)
  BY DEF Read
<1> HIDE DEF p
<1>3. CASE Is("restore")
  BY <1>1, <1>2, <1>3, LoopEffect DEF Advances, Kept, Marked
<1>4. CASE ~Is("restore")
  BY <1>1, <1>2, <1>4, LoopEffect DEF Advances, Kept, Marked
<1> QED
  BY <1>3, <1>4

LEMMA StageEffect ==
  ASSUME Proc(proc), Stage, NEW x, x = Min(proc.todo)
  PROVE  /\ Proc(proc') /\ Kept(proc', proc) /\ Marked(proc', proc)
         /\ Advances(x, "unchanged", proc.paths)
  BY LoopEffect DEF Stage, Advances

\* Once all files are looked at again, the stale ones go first.
AfterUnchanged(q, stale) ==
    /\ stale = {} => q.step = "replace" /\ q.todo = DOMAIN archive.files
    /\ stale # {} => q.step = "stale" /\ q.todo = stale

LEMMA AfterStaleEffect ==
  ASSUME NEW p, Proc(p), NEW stale
  PROVE  /\ Proc(AfterStale(p, stale)) /\ Kept(AfterStale(p, stale), p)
         /\ Marked(AfterStale(p, stale), p) /\ AfterUnchanged(AfterStale(p, stale), stale)
  BY GotoEffect DEF AfterStale, AfterUnchanged

LEMMA CheckUnchangedEffect ==
  ASSUME Proc(proc), CheckUnchanged, NEW x, x = Min(proc.todo)
  PROVE  /\ Proc(proc') /\ Kept(proc', proc) /\ Marked(proc', proc)
         /\ Is("restore") /\ proc.todo = {x} => AfterUnchanged(proc', Stale)
         /\ ~(Is("restore") /\ proc.todo = {x}) => Advances(x, "finish", {})
<1>1. CASE Is("restore") /\ proc.todo = {x}
  BY <1>1, AfterStaleEffect DEF CheckUnchanged
<1>2. CASE ~(Is("restore") /\ proc.todo = {x})
  BY <1>2, LoopEffect DEF CheckUnchanged, Advances
<1> QED
  BY <1>1, <1>2

LEMMA CheckStaleEffect ==
  ASSUME Proc(proc), CheckStale
  PROVE  /\ Proc(proc') /\ Kept(proc', proc) /\ Marked(proc', proc)
         /\ proc'.step = "unlink" /\ proc'.todo = proc.todo
  BY DEF CheckStale, Proc, Kept, Marked

LEMMA UnlinkEffect ==
  ASSUME Proc(proc), Unlink, NEW x, x = Max(proc.todo)
  PROVE  /\ Proc(proc') /\ Kept(proc', proc)
         /\ proc'.same = proc.same \ {x} /\ proc'.gone = proc.gone \cup {x}
         /\ proc'.ours = proc.ours /\ proc'.committed = proc.committed
         /\ AfterUnchanged(proc', proc.todo \ {x})
<1> DEFINE p == [proc EXCEPT !.same = @ \ {x}, !.gone = @ \cup {x}]
<1>1. /\ Proc(p) /\ Kept(p, proc) /\ p.same = proc.same \ {x} /\ p.gone = proc.gone \cup {x}
      /\ p.ours = proc.ours /\ p.committed = proc.committed
  BY DEF Proc, Kept
<1>2. proc' = AfterStale(p, proc.todo \ {x})
  BY DEF Unlink
<1> HIDE DEF p
<1> QED
  BY <1>1, <1>2, AfterStaleEffect DEF Kept, Marked

LEMMA ReplaceEffect ==
  ASSUME Proc(proc), Replace, NEW x, x = Min(proc.todo)
  PROVE  /\ Proc(proc') /\ Kept(proc', proc)
         /\ proc'.same = proc.same \ {x} /\ proc'.ours = proc.ours \cup {x}
         /\ proc'.gone = proc.gone /\ proc'.committed = proc.committed
         /\ Advances(x, "recheck", {})
<1> DEFINE p == [proc EXCEPT !.same = @ \ {x}, !.ours = @ \cup {x}]
<1>1. /\ Proc(p) /\ Kept(p, proc) /\ p.same = proc.same \ {x} /\ p.ours = proc.ours \cup {x}
      /\ p.gone = proc.gone /\ p.committed = proc.committed /\ p.step = proc.step
      /\ p.todo = proc.todo
  BY DEF Proc, Kept
<1>2. proc' = Loop(x, p, "recheck", {})
  BY DEF Replace
<1> HIDE DEF p
<1> QED
  BY <1>1, <1>2, LoopEffect DEF Kept, Marked, Advances

LEMMA RecheckEffect ==
  ASSUME Proc(proc), Recheck
  PROVE  /\ Proc(proc') /\ Kept(proc', proc) /\ Marked(proc', proc)
         /\ proc'.step = "compare" /\ proc'.todo = Present
  BY GotoEffect DEF Recheck

LEMMA CompareEffect ==
  ASSUME Proc(proc), Compare, NEW x, x = Min(proc.todo)
  PROVE  /\ Proc(proc') /\ Kept(proc', proc)
         /\ proc'.same = proc.same /\ proc'.ours = proc.ours /\ proc'.gone = proc.gone
         /\ proc'.committed = (proc.todo = {x})
         /\ Advances(x, "final", {})
<1> DEFINE p == Loop(x, proc, "final", {})
<1>1. proc' = [p EXCEPT !.committed = proc.todo = {x}]
  BY DEF Compare
<1>2. /\ Proc(p) /\ Kept(p, proc) /\ Marked(p, proc)
      /\ proc.todo = {x} => p.step = "final" /\ p.todo = {}
      /\ proc.todo # {x} => p.step = proc.step /\ p.todo = proc.todo \ {x}
  BY LoopEffect
<1> HIDE DEF p
<1>3. /\ Proc(proc') /\ Kept(proc', p) /\ proc'.same = p.same /\ proc'.ours = p.ours
      /\ proc'.gone = p.gone /\ proc'.committed = (proc.todo = {x}) /\ proc'.step = p.step
      /\ proc'.todo = p.todo
  BY <1>1, <1>2 DEF Proc, Kept
<1> QED
  BY <1>2, <1>3 DEF Kept, Marked, Advances

LEMMA EndEffect ==
  ASSUME Proc(proc), Final \/ Finish
  PROVE  /\ Proc(proc') /\ Kept(proc', proc) /\ Marked(proc', proc) /\ proc'.step = "done"
<1>1. proc' = Goto(proc, "done", {})
  BY DEF Final, Finish
<1> QED
  BY <1>1, GotoEffect

LEMMA RaiseEffect ==
  ASSUME Proc(proc), Raise
  PROVE  /\ Proc(proc') /\ Marked(proc', proc)
         /\ proc'.cmd = proc.cmd /\ proc'.paths = proc.paths /\ proc'.saw = proc.saw
         /\ proc'.moment = proc.moment /\ proc'.edited = proc.edited
         /\ \/ /\ Is("restore") /\ proc.step \in Trying
               /\ proc'.step = "clear" /\ proc'.todo = Present \ {Index}
               /\ proc'.torn = proc.torn /\ strays' = NotStaged
            \/ proc.step \in RollingBack /\ proc'.step = "failed" /\ proc'.torn = TRUE
            \/ /\ ~(Is("restore") /\ proc.step \in Trying) /\ proc.step \notin RollingBack
               /\ proc'.step = "failed" /\ proc'.torn = proc.torn /\ strays' = strays
<1>1. CASE InPlace /\ proc' = RolledBack /\ strays' = NotStaged
  <2> DEFINE p == Goto(proc, "clear", Present \ {Index})
             odd == \E s \in NotStaged : s[2] # Index
  <2>1. /\ Proc(p) /\ Kept(p, proc) /\ Marked(p, proc) /\ p.step = "clear"
        /\ p.todo = Present \ {Index}
    BY GotoEffect
  <2>2. proc' = [p EXCEPT !.stuck = odd]
    BY <1>1 DEF RolledBack
  <2> HIDE DEF p, odd
  <2>3. /\ Proc(proc') /\ Marked(proc', p) /\ proc'.step = p.step /\ proc'.todo = p.todo
        /\ proc'.cmd = p.cmd /\ proc'.paths = p.paths /\ proc'.saw = p.saw
        /\ proc'.moment = p.moment /\ proc'.edited = p.edited /\ proc'.torn = p.torn
    BY <2>1, <2>2 DEF Proc, Marked
  <2> QED
    BY <1>1, <2>1, <2>3 DEF Kept, Marked, InPlace
<1>2. CASE proc.step \in RollingBack /\ proc' = [Goto(proc, "failed", {}) EXCEPT !.torn = TRUE]
  <2> DEFINE p == Goto(proc, "failed", {})
  <2>1. Proc(p) /\ Kept(p, proc) /\ Marked(p, proc) /\ p.step = "failed"
    BY GotoEffect
  <2>2. proc' = [p EXCEPT !.torn = TRUE]
    BY <1>2
  <2> HIDE DEF p
  <2>3. /\ Proc(proc') /\ Marked(proc', p) /\ proc'.step = p.step /\ proc'.torn = TRUE
        /\ proc'.cmd = p.cmd /\ proc'.paths = p.paths /\ proc'.saw = p.saw
        /\ proc'.moment = p.moment /\ proc'.edited = p.edited
    BY <2>1, <2>2 DEF Proc, Marked
  <2> QED
    BY <1>2, <2>1, <2>3 DEF Kept, Marked
<1>3. CASE ~InPlace /\ proc.step \notin RollingBack /\ proc' = Goto(proc, "failed", {})
           /\ strays' = strays
  BY <1>3, GotoOK DEF Marked, InPlace
<1> QED
  BY <1>1, <1>2, <1>3 DEF Raise

LEMMA ClearEffect ==
  ASSUME Proc(proc), Clear
  PROVE  /\ Proc(proc') /\ Kept(proc', proc)
         /\ proc'.gone = proc.gone /\ proc'.committed = proc.committed
         /\ \/ \E x \in proc.todo \cap Present :
                 /\ tree' = Without(x) /\ proc'.step = proc.step
                 /\ proc'.todo = proc.todo \ {x} /\ proc'.ours = proc.ours \ {x}
                 /\ proc'.same = proc.same \ {x}
            \/ /\ proc.todo = {} /\ tree' = tree
               /\ proc'.step = "rewrite" /\ proc'.todo = DOMAIN proc.saw
               /\ proc'.same = proc.same /\ proc'.ours = proc.ours
<1>1. CASE \E x \in proc.todo \cap Present :
             /\ tree' = Without(x)
             /\ proc' = [proc EXCEPT !.todo = @ \ {x}, !.ours = @ \ {x}, !.same = @ \ {x}]
  <2>1. PICK x \in proc.todo \cap Present :
             /\ tree' = Without(x)
             /\ proc' = [proc EXCEPT !.todo = @ \ {x}, !.ours = @ \ {x}, !.same = @ \ {x}]
    BY <1>1
  <2>2. /\ Proc(proc') /\ Kept(proc', proc)
        /\ proc'.gone = proc.gone /\ proc'.committed = proc.committed /\ proc'.step = proc.step
        /\ proc'.todo = proc.todo \ {x} /\ proc'.ours = proc.ours \ {x}
        /\ proc'.same = proc.same \ {x}
    BY <2>1 DEF Proc, Kept
  <2> QED
    BY <2>1, <2>2
<1>2. CASE proc.todo = {} /\ tree' = tree /\ proc' = Goto(proc, "rewrite", DOMAIN proc.saw)
  BY <1>2, GotoEffect DEF Marked
<1> QED
  BY <1>1, <1>2 DEF Clear

LEMMA RewriteEffect ==
  ASSUME Proc(proc), Rewrite, NEW x, x = Min(proc.todo)
  PROVE  /\ Proc(proc') /\ Kept(proc', proc)
         /\ proc'.same = proc.same \ {x} /\ proc'.ours = proc.ours \ {x}
         /\ proc'.gone = proc.gone \ {x} /\ proc'.committed = proc.committed
         /\ Advances(x, "failed", {})
<1> DEFINE p == [proc EXCEPT !.ours = @ \ {x}, !.same = @ \ {x}, !.gone = @ \ {x}]
<1>1. /\ Proc(p) /\ Kept(p, proc) /\ p.same = proc.same \ {x} /\ p.ours = proc.ours \ {x}
      /\ p.gone = proc.gone \ {x} /\ p.committed = proc.committed /\ p.step = proc.step
      /\ p.todo = proc.todo
  BY DEF Proc, Kept
<1>2. proc' = Loop(x, p, "failed", {})
  BY DEF Rewrite
<1> HIDE DEF p
<1> QED
  BY <1>1, <1>2, LoopEffect DEF Kept, Marked, Advances

LEMMA KillEffect ==
  ASSUME Proc(proc), Kill
  PROVE  Proc(proc') /\ Kept(proc', proc) /\ Marked(proc', proc) /\ proc'.step = "killed"
  BY GotoEffect DEF Kill

LEMMA EditEffect ==
  ASSUME Proc(proc), Edit
  PROVE  /\ Proc(proc') /\ proc'.step = proc.step /\ proc'.todo = proc.todo
         /\ proc'.cmd = proc.cmd /\ proc'.paths = proc.paths /\ proc'.saw = proc.saw
         /\ proc'.moment = proc.moment /\ proc'.stuck = proc.stuck /\ proc'.torn = proc.torn
         /\ proc'.committed = proc.committed /\ proc'.edited = TRUE
         /\ \/ \E x \in Paths :
                 /\ tree' = With(x, Junk) \/ tree' = Without(x)
                 /\ proc'.same = proc.same \ {x} /\ proc'.ours = proc.ours \ {x}
                 /\ proc'.gone = proc.gone \ {x} /\ strays' = strays
            \/ /\ tree' = tree /\ Marked(proc', proc)
               /\ \E s \in Foreign : strays' = strays \cup {s}
<1>1. CASE \E x \in Paths :
             /\ tree' \in {With(x, Junk), Without(x)}
             /\ proc' = [proc EXCEPT !.same = @ \ {x}, !.ours = @ \ {x}, !.gone = @ \ {x},
                                     !.edited = TRUE]
             /\ UNCHANGED strays
  <2>1. PICK x \in Paths :
             /\ tree' \in {With(x, Junk), Without(x)}
             /\ proc' = [proc EXCEPT !.same = @ \ {x}, !.ours = @ \ {x}, !.gone = @ \ {x},
                                     !.edited = TRUE]
             /\ UNCHANGED strays
    BY <1>1
  <2>2. /\ Proc(proc') /\ proc'.step = proc.step /\ proc'.todo = proc.todo
        /\ proc'.cmd = proc.cmd /\ proc'.paths = proc.paths /\ proc'.saw = proc.saw
        /\ proc'.moment = proc.moment /\ proc'.stuck = proc.stuck /\ proc'.torn = proc.torn
        /\ proc'.committed = proc.committed /\ proc'.edited = TRUE
        /\ proc'.same = proc.same \ {x} /\ proc'.ours = proc.ours \ {x}
        /\ proc'.gone = proc.gone \ {x}
    BY <2>1 DEF Proc
  <2> QED
    BY <2>1, <2>2
<1>2. CASE /\ \E s \in Foreign : strays' = strays \cup {s}
           /\ proc' = [proc EXCEPT !.edited = TRUE]
           /\ UNCHANGED tree
  BY <1>2 DEF Proc, Marked
<1> QED
  BY <1>1, <1>2 DEF Edit

-----------------------------------------------------------------------------
\* Every step keeps the invariant.

LEMMA CheckStateKeeps ==
  ASSUME ArtifactInv, CheckState
  PROVE  ArtifactInv'
<1>1. /\ ArtifactTypes /\ Attributed /\ Snapshots /\ Reading /\ Restoring /\ Untouched /\ Temporary
      /\ Proc(proc) /\ Present \subseteq Paths
  BY DEF ArtifactInv, ArtifactTypes, Present, Tree
<1>4. ArtifactTypes'
  BY <1>1, CheckStateEffect DEF ArtifactTypes, Attributed, CheckState, At, Is, Kept,
     Marked, StateHolds, Discoverable, Steps, Ended, Trying, RollingBack, Commands, Present
<1>5. Attributed'
  BY <1>1, CheckStateEffect DEF Attributed, CheckState, At, Is, Kept, Marked, StateHolds,
     Discoverable, RestoreOnly, Before, AfterRead, Loaded, Trying, RollingBack, Present, Stale
<1>6. Snapshots'
  BY <1>1, CheckStateEffect DEF Attributed, Snapshots, CheckState, At, Is, Kept, Marked,
     StateHolds, Discoverable, Stood, Present, AfterRead, Loaded, RestoreOnly, Trying,
     RollingBack
<1>7. Reading'
  BY <1>1, CheckStateEffect DEF Attributed, Reading, CheckState, At, Is, Kept, Marked,
     StateHolds, Discoverable, Present, RestoreOnly, AfterRead, Loaded, Trying, RollingBack
<1>8. Restoring'
  BY <1>1, CheckStateEffect DEF Attributed, Restoring, CheckState, At, Is, Kept, Marked,
     StateHolds, Discoverable, Early, Trying, RollingBack, Present, AfterRead
<1>9. Untouched'
  BY <1>1, CheckStateEffect DEF Attributed, Restoring, Untouched, CheckState, At, Is, Kept,
     Marked, StateHolds, Discoverable, Early, AfterRead, Trying, RollingBack, Present, Stale
<1>10. Temporary'
  BY <1>1, CheckStateEffect DEF Attributed, Temporary, CheckState, At, Is, Kept, Marked,
     StateHolds, Discoverable, Trying, RollingBack
<1> QED BY <1>4, <1>5, <1>6, <1>7, <1>8, <1>9, <1>10 DEF ArtifactInv

LEMMA LoadKeeps ==
  ASSUME ArtifactInv, Load
  PROVE  ArtifactInv'
<1>1. /\ ArtifactTypes /\ Attributed /\ Snapshots /\ Reading /\ Restoring /\ Untouched /\ Temporary
      /\ Proc(proc) /\ Present \subseteq Paths
  BY DEF ArtifactInv, ArtifactTypes, Present, Tree
<1>4. ArtifactTypes'
  BY <1>1, LoadEffect DEF ArtifactTypes, Attributed, Load, At, Is, Kept, Marked, Steps,
     Ended, Trying, RollingBack, Commands, Present
<1>5. Attributed'
  BY <1>1, LoadEffect DEF Attributed, Load, At, Is, Kept, Marked, RestoreOnly, Before,
     AfterRead, Loaded, Trying, RollingBack, Present, Stale
<1>6. Snapshots'
  BY <1>1, LoadEffect DEF Attributed, Snapshots, Load, At, Is, Kept, Marked, Stood,
     Present, AfterRead, Loaded, RestoreOnly, Trying, RollingBack
<1>7. Reading'
  BY <1>1, LoadEffect DEF Attributed, Reading, Load, At, Is, Kept, Marked, Present,
     RestoreOnly, AfterRead, Loaded, Trying, RollingBack
<1>8. Restoring'
  BY <1>1, LoadEffect DEF Attributed, Restoring, Load, At, Is, Kept, Marked, Early, Trying,
     RollingBack, Present, AfterRead
<1>9. Untouched'
  BY <1>1, LoadEffect DEF Attributed, Restoring, Untouched, Load, At, Is, Kept, Marked,
     Early, AfterRead, Trying, RollingBack, Present, Stale
<1>10. Temporary'
  BY <1>1, LoadEffect DEF Attributed, Temporary, Load, At, Is, Kept, Marked, Trying,
     RollingBack
<1> QED BY <1>4, <1>5, <1>6, <1>7, <1>8, <1>9, <1>10 DEF ArtifactInv

LEMMA CheckAgainKeeps ==
  ASSUME ArtifactInv, CheckAgain
  PROVE  ArtifactInv'
<1>1. /\ ArtifactTypes /\ Attributed /\ Snapshots /\ Reading /\ Restoring /\ Untouched /\ Temporary
      /\ Proc(proc) /\ Present \subseteq Paths
  BY DEF ArtifactInv, ArtifactTypes, Present, Tree
<1>4. ArtifactTypes'
  BY <1>1, CheckAgainEffect DEF ArtifactTypes, Attributed, CheckAgain, At, Is, Kept,
     Marked, StateHolds, Discoverable, Steps, Ended, Trying, RollingBack, Commands, Present
<1>5. Attributed'
  BY <1>1, CheckAgainEffect DEF Attributed, CheckAgain, At, Is, Kept, Marked, StateHolds,
     Discoverable, RestoreOnly, Before, AfterRead, Loaded, Trying, RollingBack, Present, Stale
<1>6. Snapshots'
  BY <1>1, CheckAgainEffect DEF Attributed, Snapshots, CheckAgain, At, Is, Kept, Marked,
     StateHolds, Discoverable, Stood, Present, AfterRead, Loaded, RestoreOnly, Trying,
     RollingBack
<1>7. Reading'
  BY <1>1, CheckAgainEffect DEF Attributed, Reading, CheckAgain, At, Is, Kept, Marked,
     StateHolds, Discoverable, Present, RestoreOnly, AfterRead, Loaded, Trying, RollingBack
<1>8. Restoring'
  BY <1>1, CheckAgainEffect DEF Attributed, Restoring, CheckAgain, At, Is, Kept, Marked,
     StateHolds, Discoverable, Early, Trying, RollingBack, Present, AfterRead
<1>9. Untouched'
  BY <1>1, CheckAgainEffect DEF Attributed, Restoring, Untouched, CheckAgain, At, Is, Kept,
     Marked, StateHolds, Discoverable, Early, AfterRead, Trying, RollingBack, Present, Stale
<1>10. Temporary'
  BY <1>1, CheckAgainEffect DEF Attributed, Temporary, CheckAgain, At, Is, Kept, Marked,
     StateHolds, Discoverable, Trying, RollingBack
<1> QED BY <1>4, <1>5, <1>6, <1>7, <1>8, <1>9, <1>10 DEF ArtifactInv

LEMMA DiscoverKeeps ==
  ASSUME ArtifactInv, Discover
  PROVE  ArtifactInv'
<1>1. /\ ArtifactTypes /\ Attributed /\ Snapshots /\ Reading /\ Restoring /\ Untouched /\ Temporary
      /\ Proc(proc) /\ Present \subseteq Paths
  BY DEF ArtifactInv, ArtifactTypes, Present, Tree
<1>4. ArtifactTypes'
  BY <1>1, DiscoverEffect DEF ArtifactTypes, Attributed, Discover, At, Is, Kept, Marked,
     Discoverable, Steps, Ended, Trying, RollingBack, Commands, Present
<1>5. Attributed'
  BY <1>1, DiscoverEffect DEF Attributed, Discover, At, Is, Kept, Marked, Discoverable,
     RestoreOnly, Before, AfterRead, Loaded, Trying, RollingBack, Present, Stale
<1>6. Snapshots'
  BY <1>1, DiscoverEffect DEF Attributed, Snapshots, Discover, At, Is, Kept, Marked,
     Discoverable, Stood, Present, AfterRead, Loaded, RestoreOnly, Trying, RollingBack
<1>7. Reading'
  BY <1>1, DiscoverEffect DEF Attributed, Reading, Discover, At, Is, Kept, Marked,
     Discoverable, Present, RestoreOnly, AfterRead, Loaded, Trying, RollingBack
<1>8. Restoring'
  BY <1>1, DiscoverEffect DEF Attributed, Restoring, Discover, At, Is, Kept, Marked,
     Discoverable, Early, Trying, RollingBack, Present, AfterRead
<1>9. Untouched'
  BY <1>1, DiscoverEffect DEF Attributed, Restoring, Untouched, Discover, At, Is, Kept,
     Marked, Discoverable, Early, AfterRead, Trying, RollingBack, Present, Stale
<1>10. Temporary'
  BY <1>1, DiscoverEffect DEF Attributed, Temporary, Discover, At, Is, Kept, Marked,
     Discoverable, Trying, RollingBack
<1> QED BY <1>4, <1>5, <1>6, <1>7, <1>8, <1>9, <1>10 DEF ArtifactInv

LEMMA ReadKeeps ==
  ASSUME ArtifactInv, Read
  PROVE  ArtifactInv'
<1>1. /\ ArtifactTypes /\ Attributed /\ Snapshots /\ Reading /\ Restoring /\ Untouched /\ Temporary
      /\ Proc(proc) /\ Present \subseteq Paths
  BY DEF ArtifactInv, ArtifactTypes, Present, Tree
<1>2. PICK z : z = Min(proc.todo)
  OBVIOUS
<1>3. z \in proc.todo /\ z \in Paths /\ z \in proc.paths
  BY <1>1, <1>2, MinIn, PathsAreNumbers DEF Read, Attributed, ArtifactTypes
<1>4. /\ Tree(proc'.saw) /\ DOMAIN proc'.saw = DOMAIN proc.saw \cup {z} /\ proc'.saw[z] = tree[z]
      /\ \A y \in DOMAIN proc.saw : y # z => proc'.saw[y] = proc.saw[y]
  <2>1. Tree(proc.saw) /\ proc'.saw = Put(proc.saw, z, tree[z])
    BY <1>1, <1>2, ReadEffect DEF ArtifactTypes
  <2>2. PICK f, v, g : f = proc.saw /\ v = tree[z] /\ g = proc'.saw
    OBVIOUS
  <2>3. Tree(f) /\ g = Put(f, z, v)
    BY <2>1, <2>2
  <2>4. Tree(g)
    BY <1>3, <2>3, PutTree
  <2>5. DOMAIN g = DOMAIN f \cup {z}
    BY <2>3, PutOK
  <2>6. g[z] = v
    BY <2>3, PutOK
  <2>7. \A y \in DOMAIN f : y # z => g[y] = f[y]
    BY <2>3, PutOK
  <2> QED
    BY <2>2, <2>4, <2>5, <2>6, <2>7
<1>own. /\ proc.step = "read" /\ tree' = tree /\ z \in Present
        /\ archive' = archive /\ base' = base /\ killed' = killed
        /\ Is("verify") => tree[z] = archive.files[z]
        /\ proc'.cmd = proc.cmd /\ proc'.paths = proc.paths /\ proc'.same = proc.same \cup {z}
        /\ proc'.moment = (IF Is("restore") THEN proc.moment ELSE tree)
        /\ proc'.ours = proc.ours /\ proc'.gone = proc.gone /\ proc'.edited = proc.edited
        /\ proc'.committed = proc.committed /\ proc'.torn = proc.torn
  BY <1>1, <1>2, ReadEffect DEF Read, At
<1>on. /\ Is("restore") => proc'.step \in {"read", "stage"}
       /\ ~Is("restore") => proc'.step \in {"read", "unchanged"}
  BY <1>1, <1>2, <1>own, ReadEffect DEF Advances
<1>5. ArtifactTypes'
  BY <1>1, <1>2, <1>3, ReadEffect, <1>4 DEF ArtifactTypes, Attributed, Read, At, Is, Kept,
     Marked, Advances, Steps, Ended, Trying, RollingBack, Commands, Present
<1>6. Attributed'
  <2>1. (proc.step \in RestoreOnly => Is("restore"))'
    BY <1>1, <1>2, <1>3, ReadEffect, <1>4 DEF Attributed, ArtifactTypes, At, Is, Kept,
       Marked, Advances, Read, RestoreOnly, Before, AfterRead, Loaded, Trying, RollingBack,
       Present, Stale
  <2>2. (At("finish") => ~Is("restore"))'
    BY <1>1, <1>2, <1>3, ReadEffect, <1>4 DEF Attributed, ArtifactTypes, At, Is, Kept,
       Marked, Advances, Read, RestoreOnly, Before, AfterRead, Loaded, Trying, RollingBack,
       Present, Stale
  <2>3. (At("idle") => Is("pack"))'
    BY <1>1, <1>2, <1>3, ReadEffect, <1>4 DEF Attributed, ArtifactTypes, At, Is, Kept,
       Marked, Advances, Read, RestoreOnly, Before, AfterRead, Loaded, Trying, RollingBack,
       Present, Stale
  <2>4. (At("load") => ~Is("pack"))'
    BY <1>1, <1>2, <1>3, ReadEffect, <1>4 DEF Attributed, ArtifactTypes, At, Is, Kept,
       Marked, Advances, Read, RestoreOnly, Before, AfterRead, Loaded, Trying, RollingBack,
       Present, Stale
  <2>5. (~Is("pack") /\ proc.step \in Loaded => archive # NoArchive)'
    BY <1>1, <1>2, <1>3, ReadEffect, <1>4 DEF Attributed, ArtifactTypes, At, Is, Kept,
       Marked, Advances, Read, RestoreOnly, Before, AfterRead, Loaded, Trying, RollingBack,
       Present, Stale
  <2>6. (proc.same \subseteq DOMAIN proc.saw /\ DOMAIN proc.saw \subseteq proc.paths)'
    <3>1. proc.same \subseteq DOMAIN proc.saw /\ DOMAIN proc.saw \subseteq proc.paths
      BY <1>1 DEF Attributed
    <3> QED
      BY <1>3, <1>4, <1>own, <3>1
  <2>7. (proc.step \in Before => DOMAIN proc.saw = {})'
    BY <1>1, <1>2, <1>3, ReadEffect, <1>4 DEF Attributed, ArtifactTypes, At, Is, Kept,
       Marked, Advances, Read, RestoreOnly, Before, AfterRead, Loaded, Trying, RollingBack,
       Present, Stale
  <2>8. (proc.step \in AfterRead \cup {"load", "read"} => Index \in proc.paths)'
    BY <1>1, <1>2, <1>3, ReadEffect, <1>4 DEF Attributed, ArtifactTypes, At, Is, Kept,
       Marked, Advances, Read, RestoreOnly, Before, AfterRead, Loaded, Trying, RollingBack,
       Present, Stale
  <2>9. (At("read") => /\ proc.todo # {} /\ proc.todo \subseteq proc.paths
                       /\ proc.paths \ proc.todo \subseteq DOMAIN proc.saw)'
    <3>1. Index \in proc.paths /\ DOMAIN proc.saw \subseteq proc.paths
          /\ proc.paths \ proc.todo \subseteq DOMAIN proc.saw /\ proc.todo \subseteq proc.paths
      BY <1>1 DEF Attributed, Read, At, AfterRead
    <3>2. proc'.paths = proc.paths /\ DOMAIN proc'.saw = DOMAIN proc.saw \cup {z}
      BY <1>1, <1>2, <1>4, ReadEffect
    <3>3. CASE proc.todo = {z}
      <4>1. proc'.step # "read"
        BY <1>1, <1>2, <3>3, ReadEffect DEF Advances
      <4> QED
        BY <4>1 DEF At
    <3>4. CASE proc.todo # {z}
      <4>1. proc'.todo = proc.todo \ {z}
        BY <1>1, <1>2, <3>4, ReadEffect DEF Advances
      <4> QED
        BY <1>3, <3>1, <3>2, <3>4, <4>1
    <3> QED
      BY <3>3, <3>4
  <2>10. (proc.step \in AfterRead => DOMAIN proc.saw = proc.paths)'
    <3>1. Index \in proc.paths /\ DOMAIN proc.saw \subseteq proc.paths
          /\ proc.paths \ proc.todo \subseteq DOMAIN proc.saw
      BY <1>1 DEF Attributed, Read, At, AfterRead
    <3>2. proc'.paths = proc.paths /\ DOMAIN proc'.saw = DOMAIN proc.saw \cup {z}
      BY <1>1, <1>2, <1>4, ReadEffect
    <3>3. proc'.step \in AfterRead => proc.todo = {z}
      BY <1>1, <1>2, ReadEffect DEF Advances, Read, At, AfterRead, Trying, RollingBack
    <3> QED
      BY <1>3, <3>1, <3>2, <3>3
  <2>11. (proc.step \in {"stage", "replace"} =>
           proc.todo # {} /\ proc.todo \subseteq DOMAIN archive.files)'
    BY <1>1, <1>2, <1>3, ReadEffect, <1>4 DEF Attributed, ArtifactTypes, At, Is, Kept,
       Marked, Advances, Read, RestoreOnly, Before, AfterRead, Loaded, Trying, RollingBack,
       Present, Stale
  <2>12. (proc.step \in {"stale", "unlink"} => proc.todo # {} /\ proc.todo \subseteq Stale)'
    BY <1>1, <1>2, <1>3, ReadEffect, <1>4 DEF Attributed, ArtifactTypes, At, Is, Kept,
       Marked, Advances, Read, RestoreOnly, Before, AfterRead, Loaded, Trying, RollingBack,
       Present, Stale
  <2>13. (At("rewrite") => proc.todo # {} /\ proc.todo \subseteq DOMAIN proc.saw)'
    BY <1>1, <1>2, <1>3, ReadEffect, <1>4 DEF Attributed, ArtifactTypes, At, Is, Kept,
       Marked, Advances, Read, RestoreOnly, Before, AfterRead, Loaded, Trying, RollingBack,
       Present, Stale
  <2> QED
    BY <2>1, <2>2, <2>3, <2>4, <2>5, <2>6, <2>7, <2>8, <2>9, <2>10, <2>11, <2>12, <2>13 DEF
       Attributed
<1>7. Snapshots'
  <2>1. (\A x \in proc.same : x \in Present /\ tree[x] = proc.saw[x])'
    <3>1. \A x \in proc.same :
            x \in Present /\ tree[x] = proc.saw[x] /\ x \in DOMAIN proc.saw
      BY <1>1 DEF Snapshots, Attributed
    <3>2. \A x \in proc'.same : x \in Present /\ tree[x] = proc'.saw[x]
      BY <1>4, <1>own, <3>1
    <3> QED
      BY <1>own, <3>2 DEF Present
  <2>2. (~Is("restore") =>
           /\ \A x \in proc.same : Stood(x)
           /\ At("unchanged") => \A x \in proc.paths \ proc.todo : Stood(x)
           /\ proc.step \in {"finish", "done"} => \A x \in proc.paths : Stood(x))'
    <3>1. SUFFICES ASSUME ~Is("restore")
                   PROVE  /\ \A x \in proc'.same : Stood(x)'
                          /\ proc'.step = "unchanged" => proc'.todo = proc'.paths
                          /\ proc'.step \in {"read", "unchanged"}
      BY <1>1, <1>2, ReadEffect DEF Is, At
    <3>2. proc'.moment = tree /\ proc'.same = proc.same \cup {z} /\ z \in Present
      BY <1>1, <1>2, <3>1, ReadEffect DEF Read, Present
    <3>3. \A x \in proc.same : x \in Present /\ tree[x] = proc.saw[x] /\ x \in DOMAIN proc.saw
      BY <1>1 DEF Snapshots, Attributed
    <3>4. \A x \in proc'.same : Stood(x)'
      BY <1>4, <3>2, <3>3 DEF Stood, Present
    <3> QED
      BY <1>1, <1>2, <3>1, <3>4, ReadEffect DEF Advances, Read, At
  <2>3. (Is("verify") =>
           /\ \A x \in DOMAIN proc.saw : proc.saw[x] = archive.files[x]
           /\ proc.step \in {"read", "unchanged", "finish", "done"} =>
                proc.paths = DOMAIN archive.files /\ archive.base = base)'
    <3>1. Is("verify")' => Is("verify")
      BY <1>own DEF Is
    <3>2. ASSUME Is("verify")
          PROVE  \A x \in DOMAIN proc'.saw : proc'.saw[x] = archive'.files[x]
      <4>1. \A x \in DOMAIN proc.saw : proc.saw[x] = archive.files[x]
        BY <1>1, <3>2 DEF Snapshots
      <4> QED
        BY <1>4, <1>own, <3>2, <4>1
    <3>3. ASSUME Is("verify")
          PROVE  proc'.paths = DOMAIN archive'.files /\ archive'.base = base'
      BY <1>1, <1>own, <3>3 DEF Snapshots
    <3> QED
      BY <3>1, <3>2, <3>3
  <2>4. (Is("pack") /\ At("done") => archive.files = proc.saw)'
    BY <1>1, <1>2, <1>3, ReadEffect, <1>4 DEF Attributed, Snapshots, At, Is, Kept, Marked,
       Advances, Read, Stood, Present, AfterRead, Loaded, RestoreOnly, Trying, RollingBack
  <2> QED
    BY <2>1, <2>2, <2>3, <2>4 DEF Snapshots
<1>8. Reading'
  <2>1. Is("restore")' <=> Is("restore")
    BY <1>own DEF Is
  <2>2. ASSUME ~Is("restore")
        PROVE  /\ (~proc.edited /\ ~At("idle") => tree = proc.moment)'
               /\ (At("done") /\ ~proc.edited => Present = proc.paths)'
    BY <1>own, <1>on, <2>2 DEF At
  <2>3. ASSUME ~Is("restore")
        PROVE  \A x \in Present' \ proc'.paths : tree'[x] = Junk
    BY <1>1, <1>own, <2>3 DEF Reading, Present
  <2>4. ASSUME ~Is("restore"), NEW x \in Present \cap DOMAIN proc'.saw
        PROVE  tree[x] \in {Junk, proc'.saw[x]}
    <3>1. CASE x = z
      BY <1>4, <3>1
    <3>2. CASE x # z
      <4>1. x \in DOMAIN proc.saw /\ proc'.saw[x] = proc.saw[x]
        BY <1>4, <3>2
      <4> QED
        BY <1>1, <2>4, <4>1 DEF Reading
    <3> QED
      BY <3>1, <3>2
  <2>5. ASSUME ~Is("restore")
        PROVE  \A x \in Present' \cap DOMAIN proc'.saw : tree'[x] \in {Junk, proc'.saw[x]}
    BY <1>own, <2>4, <2>5 DEF Present
  <2> QED
    BY <2>1, <2>2, <2>3, <2>5 DEF Reading
<1>9. Restoring'
  <2>1. (Is("restore") /\ ~proc.torn)' => Is("restore") /\ ~proc.torn
    BY <1>own DEF Is
  <2>2. ASSUME Is("restore"), ~proc.torn
        PROVE  /\ proc'.ours = {} /\ proc'.gone = {} /\ ~proc'.committed
               /\ proc'.step \in {"read", "stage"}
    BY <1>1, <1>own, <1>on, <2>2 DEF Restoring, Early
  <2> QED
    BY <2>1, <2>2 DEF Restoring, Early, At
<1>10. Untouched'
  <2> SUFFICES ASSUME (Is("restore") /\ ~proc.torn /\ ~proc.edited)'
         PROVE  /\ (proc.step \in Early => tree = proc.moment)'
                /\ (proc.step \in {"load", "again", "read"} \cup AfterRead =>
                      proc.paths = DOMAIN proc.moment)'
                /\ (\A x \in DOMAIN proc.saw : proc.saw[x] = proc.moment[x])'
                /\ (proc.step \in {"stale", "unlink"} =>
                      /\ proc.gone \cup proc.todo = Stale /\ proc.gone \cap proc.todo = {}
                      /\ Present = proc.paths \ proc.gone
                      /\ \A x \in Present : tree[x] = proc.moment[x])'
                /\ (At("replace") =>
                      /\ Present = (proc.paths \cap DOMAIN archive.files)
                                     \cup (DOMAIN archive.files \ proc.todo)
                      /\ \A x \in DOMAIN archive.files \ proc.todo : tree[x] = archive.files[x])'
                /\ (proc.step \in {"recheck", "compare", "final", "done"} => tree = archive.files)'
                /\ (At("clear") => Present \subseteq proc.todo \cup {Index})'
                /\ (At("rewrite") =>
                      /\ Present \subseteq {Index} \cup (DOMAIN proc.saw \ proc.todo)
                      /\ \A x \in DOMAIN proc.saw \ proc.todo :
                           x \in Present /\ tree[x] = proc.saw[x])'
                /\ (At("failed") => tree = IF proc.committed THEN archive.files ELSE proc.moment)'
    BY DEF Untouched
  <2>0. Is("restore") /\ ~proc.torn /\ ~proc.edited
    BY <1>1, <1>2, <1>3, ReadEffect, <1>4 DEF At, Is, Kept, Marked, Advances, Read, Early,
       AfterRead, Trying, RollingBack, Present, Stale
  <2>1. (proc.step \in Early => tree = proc.moment)'
    BY <1>1, <1>own, <2>0 DEF Untouched, Early
  <2>2. (proc.step \in {"load", "again", "read"} \cup AfterRead => proc.paths = DOMAIN proc.moment)'
    BY <1>1, <1>own, <2>0 DEF Untouched
  <2>3. (\A x \in DOMAIN proc.saw : proc.saw[x] = proc.moment[x])'
    <3>1. tree = proc.moment /\ \A x \in DOMAIN proc.saw : proc.saw[x] = proc.moment[x]
      BY <1>1, <1>own, <2>0 DEF Untouched, Early
    <3> QED
      BY <1>4, <1>own, <2>0, <3>1
  <2>4. (proc.step \in {"stale", "unlink"} =>
           /\ proc.gone \cup proc.todo = Stale /\ proc.gone \cap proc.todo = {}
           /\ Present = proc.paths \ proc.gone
           /\ \A x \in Present : tree[x] = proc.moment[x])'
    BY <1>1, <1>2, <1>3, ReadEffect, <1>4, <2>0 DEF Attributed, Restoring, Untouched, At,
       Is, Kept, Marked, Advances, Read, Early, AfterRead, Trying, RollingBack, Present, Stale
  <2>5. (At("replace") =>
           /\ Present = (proc.paths \cap DOMAIN archive.files)
                          \cup (DOMAIN archive.files \ proc.todo)
           /\ \A x \in DOMAIN archive.files \ proc.todo : tree[x] = archive.files[x])'
    BY <1>1, <1>2, <1>3, ReadEffect, <1>4, <2>0 DEF Attributed, Restoring, Untouched, At,
       Is, Kept, Marked, Advances, Read, Early, AfterRead, Trying, RollingBack, Present, Stale
  <2>6. (proc.step \in {"recheck", "compare", "final", "done"} => tree = archive.files)'
    BY <1>1, <1>2, <1>3, ReadEffect, <1>4, <2>0 DEF Attributed, Restoring, Untouched, At,
       Is, Kept, Marked, Advances, Read, Early, AfterRead, Trying, RollingBack, Present, Stale
  <2>7. (At("clear") => Present \subseteq proc.todo \cup {Index})'
    BY <1>1, <1>2, <1>3, ReadEffect, <1>4, <2>0 DEF Attributed, Restoring, Untouched, At,
       Is, Kept, Marked, Advances, Read, Early, AfterRead, Trying, RollingBack, Present, Stale
  <2>8. (At("rewrite") =>
           /\ Present \subseteq {Index} \cup (DOMAIN proc.saw \ proc.todo)
           /\ \A x \in DOMAIN proc.saw \ proc.todo : x \in Present /\ tree[x] = proc.saw[x])'
    BY <1>1, <1>2, <1>3, ReadEffect, <1>4, <2>0 DEF Attributed, Restoring, Untouched, At,
       Is, Kept, Marked, Advances, Read, Early, AfterRead, Trying, RollingBack, Present, Stale
  <2>9. (At("failed") => tree = IF proc.committed THEN archive.files ELSE proc.moment)'
    BY <1>1, <1>2, <1>3, ReadEffect, <1>4, <2>0 DEF Attributed, Restoring, Untouched, At,
       Is, Kept, Marked, Advances, Read, Early, AfterRead, Trying, RollingBack, Present, Stale
  <2> QED
    BY <2>1, <2>2, <2>3, <2>4, <2>5, <2>6, <2>7, <2>8, <2>9
<1>11. Temporary'
  BY <1>1, <1>2, <1>3, ReadEffect, <1>4 DEF Attributed, Temporary, Read, At, Is, Kept,
     Marked, Advances, Trying, RollingBack
<1> QED BY <1>5, <1>6, <1>7, <1>8, <1>9, <1>10, <1>11 DEF ArtifactInv

LEMMA StageKeeps ==
  ASSUME ArtifactInv, Stage
  PROVE  ArtifactInv'
<1>1. /\ ArtifactTypes /\ Attributed /\ Snapshots /\ Reading /\ Restoring /\ Untouched /\ Temporary
      /\ Proc(proc) /\ Present \subseteq Paths
  BY DEF ArtifactInv, ArtifactTypes, Present, Tree
<1>2. PICK z : z = Min(proc.todo)
  OBVIOUS
<1>3. z \in proc.todo /\ z \in DOMAIN archive.files /\ z \in Paths
  BY <1>1, <1>2, MinIn, PathsAreNumbers DEF Stage, Attributed, ArtifactTypes, At, Loaded,
     AfterRead, Trying, RestoreOnly, Is, Tree
<1>4. ArtifactTypes'
  BY <1>1, <1>2, <1>3, StageEffect DEF ArtifactTypes, Attributed, At, Is, Kept, Marked,
     Advances, Stage, Steps, Ended, Trying, RollingBack, Commands, Present, Temporaries
<1>5. Attributed'
  BY <1>1, <1>2, <1>3, StageEffect DEF Attributed, Stage, At, Is, Kept, Marked, Advances,
     RestoreOnly, Before, AfterRead, Loaded, Trying, RollingBack, Present, Stale
<1>6. Snapshots'
  BY <1>1, <1>2, <1>3, StageEffect DEF Attributed, Snapshots, Stage, At, Is, Kept, Marked,
     Advances, Stood, Present, AfterRead, Loaded, RestoreOnly, Trying, RollingBack
<1>7. Reading'
  BY <1>1, <1>2, <1>3, StageEffect DEF Attributed, Reading, Stage, At, Is, Kept, Marked,
     Advances, Present, RestoreOnly, AfterRead, Loaded, Trying, RollingBack
<1>8. Restoring'
  BY <1>1, <1>2, <1>3, StageEffect DEF Attributed, Restoring, Stage, At, Is, Kept, Marked,
     Advances, Early, Trying, RollingBack, Present, AfterRead
<1>9. Untouched'
  BY <1>1, <1>2, <1>3, StageEffect DEF Attributed, Restoring, Untouched, Stage, At, Is,
     Kept, Marked, Advances, Early, AfterRead, Trying, RollingBack, Present, Stale
<1>10. Temporary'
  BY <1>1, <1>2, <1>3, StageEffect DEF Attributed, Temporary, Stage, At, Is, Kept, Marked,
     Advances, Trying, RollingBack
<1> QED BY <1>4, <1>5, <1>6, <1>7, <1>8, <1>9, <1>10 DEF ArtifactInv

LEMMA CheckUnchangedKeeps ==
  ASSUME ArtifactInv, CheckUnchanged
  PROVE  ArtifactInv'
<1>1. /\ ArtifactTypes /\ Attributed /\ Snapshots /\ Reading /\ Restoring /\ Untouched /\ Temporary
      /\ Proc(proc) /\ Present \subseteq Paths
  BY DEF ArtifactInv, ArtifactTypes, Present, Tree
<1>2. PICK z : z = Min(proc.todo)
  OBVIOUS
<1>4. ArtifactTypes'
  BY <1>1, <1>2, CheckUnchangedEffect DEF ArtifactTypes, Attributed, CheckUnchanged, At,
     Is, Kept, Marked, Advances, Unchanged, AfterUnchanged, Steps, Ended, Trying, RollingBack,
     Commands, Present
<1>5. Attributed'
  <2>1. /\ proc.step = "unchanged" /\ archive' = archive /\ proc'.cmd = proc.cmd
        /\ proc'.same = proc.same /\ proc'.saw = proc.saw /\ proc'.paths = proc.paths
    BY <1>1, <1>2, CheckUnchangedEffect DEF CheckUnchanged, At, Kept, Marked
  <2>2. /\ proc'.same \subseteq DOMAIN proc'.saw /\ DOMAIN proc'.saw = proc'.paths
        /\ Index \in proc'.paths
        /\ ~Is("pack")' => archive' # NoArchive
    BY <1>1, <2>1 DEF Attributed, AfterRead, Trying, Loaded, Is
  <2>3. CASE Is("restore") /\ proc.todo = {z}
    <3>1. AfterUnchanged(proc', Stale) /\ Stale' = Stale /\ Is("restore")'
      BY <1>1, <1>2, <2>1, <2>3, CheckUnchangedEffect DEF Stale, Is
    <3>2. DOMAIN archive.files # {}
      BY <1>1, <2>1, <2>3 DEF ArtifactTypes, Attributed, Loaded, AfterRead, Trying, Is
    <3> QED
      BY <2>1, <2>2, <3>1, <3>2 DEF Attributed, AfterUnchanged, At, Before
  <2>4. CASE ~(Is("restore") /\ proc.todo = {z})
    <3>1. /\ proc'.step \in {"unchanged", "finish"}
          /\ proc'.step = "finish" => ~Is("restore")
      BY <1>1, <1>2, <2>1, <2>4, CheckUnchangedEffect DEF Advances
    <3> QED
      BY <2>1, <2>2, <3>1 DEF Attributed, At, Before, Is, RestoreOnly, RollingBack
  <2> QED
    BY <2>3, <2>4
<1>6. Snapshots'
  BY <1>1, <1>2, CheckUnchangedEffect DEF Attributed, Snapshots, CheckUnchanged, At, Is,
     Kept, Marked, Advances, Unchanged, AfterUnchanged, Stood, Present, AfterRead, Loaded,
     RestoreOnly, Trying, RollingBack
<1>7. Reading'
  BY <1>1, <1>2, CheckUnchangedEffect DEF Attributed, Reading, CheckUnchanged, At, Is,
     Kept, Marked, Advances, Unchanged, AfterUnchanged, Present, RestoreOnly, AfterRead,
     Loaded, Trying, RollingBack
<1>8. Restoring'
  BY <1>1, <1>2, CheckUnchangedEffect DEF Attributed, Restoring, CheckUnchanged, At, Is,
     Kept, Marked, Advances, Unchanged, AfterUnchanged, Early, Trying, RollingBack, Present,
     AfterRead
<1>9. Untouched'
  <2> SUFFICES ASSUME (Is("restore") /\ ~proc.torn /\ ~proc.edited)'
         PROVE  /\ (proc.step \in Early => tree = proc.moment)'
                /\ (proc.step \in {"load", "again", "read"} \cup AfterRead =>
                      proc.paths = DOMAIN proc.moment)'
                /\ (\A x \in DOMAIN proc.saw : proc.saw[x] = proc.moment[x])'
                /\ (proc.step \in {"stale", "unlink"} =>
                      /\ proc.gone \cup proc.todo = Stale /\ proc.gone \cap proc.todo = {}
                      /\ Present = proc.paths \ proc.gone
                      /\ \A x \in Present : tree[x] = proc.moment[x])'
                /\ (At("replace") =>
                      /\ Present = (proc.paths \cap DOMAIN archive.files)
                                     \cup (DOMAIN archive.files \ proc.todo)
                      /\ \A x \in DOMAIN archive.files \ proc.todo : tree[x] = archive.files[x])'
                /\ (proc.step \in {"recheck", "compare", "final", "done"} => tree = archive.files)'
                /\ (At("clear") => Present \subseteq proc.todo \cup {Index})'
                /\ (At("rewrite") =>
                      /\ Present \subseteq {Index} \cup (DOMAIN proc.saw \ proc.todo)
                      /\ \A x \in DOMAIN proc.saw \ proc.todo :
                           x \in Present /\ tree[x] = proc.saw[x])'
                /\ (At("failed") => tree = IF proc.committed THEN archive.files ELSE proc.moment)'
    BY DEF Untouched
  <2>0. Is("restore") /\ ~proc.torn /\ ~proc.edited
    BY <1>1, <1>2, CheckUnchangedEffect DEF At, Is, Kept, Marked, Advances, CheckUnchanged,
       Unchanged, AfterUnchanged, Early, AfterRead, Trying, RollingBack, Present, Stale
  <2>1. (proc.step \in Early => tree = proc.moment)'
    BY <1>1, <1>2, CheckUnchangedEffect, <2>0 DEF Attributed, Restoring, Untouched, At, Is,
       Kept, Marked, Advances, CheckUnchanged, Unchanged, AfterUnchanged, Early, AfterRead,
       Trying, RollingBack, Present, Stale
  <2>2. (proc.step \in {"load", "again", "read"} \cup AfterRead => proc.paths = DOMAIN proc.moment)'
    BY <1>1, <1>2, CheckUnchangedEffect, <2>0 DEF Attributed, Restoring, Untouched, At, Is,
       Kept, Marked, Advances, CheckUnchanged, Unchanged, AfterUnchanged, Early, AfterRead,
       Trying, RollingBack, Present, Stale
  <2>3. (\A x \in DOMAIN proc.saw : proc.saw[x] = proc.moment[x])'
    <3>1. \A x \in DOMAIN proc.saw : proc.saw[x] = proc.moment[x]
      BY <1>1, <2>0 DEF Untouched
    <3>2. proc'.saw = proc.saw /\ proc'.moment = proc.moment
      BY <1>1, <1>2, CheckUnchangedEffect DEF Kept
    <3> QED
      BY <3>1, <3>2
  <2>own. /\ tree' = tree /\ archive' = archive /\ tree = proc.moment
          /\ proc'.paths = proc.paths /\ proc'.moment = proc.moment
          /\ proc.paths = DOMAIN proc.moment /\ proc'.gone = {}
    BY <1>1, <1>2, CheckUnchangedEffect, <2>0 DEF CheckUnchanged, Kept, Marked, At, Untouched,
       Restoring, Early, AfterRead, Trying
  <2>on. /\ proc'.step \in {"stale", "unlink"} => proc'.todo = Stale
         /\ proc'.step = "replace" => Stale = {} /\ proc'.todo = DOMAIN archive.files
    BY <1>1, <1>2, CheckUnchangedEffect, <2>0 DEF CheckUnchanged, Advances, AfterUnchanged, At
  <2>4. (proc.step \in {"stale", "unlink"} =>
           /\ proc.gone \cup proc.todo = Stale /\ proc.gone \cap proc.todo = {}
           /\ Present = proc.paths \ proc.gone
           /\ \A x \in Present : tree[x] = proc.moment[x])'
    BY <2>own, <2>on DEF Present, Stale
  <2>5. (At("replace") =>
           /\ Present = (proc.paths \cap DOMAIN archive.files)
                          \cup (DOMAIN archive.files \ proc.todo)
           /\ \A x \in DOMAIN archive.files \ proc.todo : tree[x] = archive.files[x])'
    BY <2>own, <2>on DEF Present, Stale, At
  <2>6. (proc.step \in {"recheck", "compare", "final", "done"} => tree = archive.files)'
    BY <1>1, <1>2, CheckUnchangedEffect, <2>0 DEF Attributed, Restoring, Untouched, At, Is,
       Kept, Marked, Advances, CheckUnchanged, Unchanged, AfterUnchanged, Early, AfterRead,
       Trying, RollingBack, Present, Stale
  <2>7. (At("clear") => Present \subseteq proc.todo \cup {Index})'
    BY <1>1, <1>2, CheckUnchangedEffect, <2>0 DEF Attributed, Restoring, Untouched, At, Is,
       Kept, Marked, Advances, CheckUnchanged, Unchanged, AfterUnchanged, Early, AfterRead,
       Trying, RollingBack, Present, Stale
  <2>8. (At("rewrite") =>
           /\ Present \subseteq {Index} \cup (DOMAIN proc.saw \ proc.todo)
           /\ \A x \in DOMAIN proc.saw \ proc.todo : x \in Present /\ tree[x] = proc.saw[x])'
    BY <1>1, <1>2, CheckUnchangedEffect, <2>0 DEF Attributed, Restoring, Untouched, At, Is,
       Kept, Marked, Advances, CheckUnchanged, Unchanged, AfterUnchanged, Early, AfterRead,
       Trying, RollingBack, Present, Stale
  <2>9. (At("failed") => tree = IF proc.committed THEN archive.files ELSE proc.moment)'
    BY <1>1, <1>2, CheckUnchangedEffect, <2>0 DEF Attributed, Restoring, Untouched, At, Is,
       Kept, Marked, Advances, CheckUnchanged, Unchanged, AfterUnchanged, Early, AfterRead,
       Trying, RollingBack, Present, Stale
  <2> QED
    BY <2>1, <2>2, <2>3, <2>4, <2>5, <2>6, <2>7, <2>8, <2>9
<1>10. Temporary'
  BY <1>1, <1>2, CheckUnchangedEffect DEF Attributed, Temporary, CheckUnchanged, At, Is,
     Kept, Marked, Advances, Unchanged, AfterUnchanged, Trying, RollingBack
<1> QED BY <1>4, <1>5, <1>6, <1>7, <1>8, <1>9, <1>10 DEF ArtifactInv

LEMMA CheckStaleKeeps ==
  ASSUME ArtifactInv, CheckStale
  PROVE  ArtifactInv'
<1>1. /\ ArtifactTypes /\ Attributed /\ Snapshots /\ Reading /\ Restoring /\ Untouched /\ Temporary
      /\ Proc(proc) /\ Present \subseteq Paths
  BY DEF ArtifactInv, ArtifactTypes, Present, Tree
<1>4. ArtifactTypes'
  BY <1>1, CheckStaleEffect DEF ArtifactTypes, Attributed, CheckStale, At, Is, Kept,
     Marked, Unchanged, Steps, Ended, Trying, RollingBack, Commands, Present
<1>5. Attributed'
  BY <1>1, CheckStaleEffect DEF Attributed, CheckStale, At, Is, Kept, Marked, Unchanged,
     RestoreOnly, Before, AfterRead, Loaded, Trying, RollingBack, Present, Stale
<1>6. Snapshots'
  BY <1>1, CheckStaleEffect DEF Attributed, Snapshots, CheckStale, At, Is, Kept, Marked,
     Unchanged, Stood, Present, AfterRead, Loaded, RestoreOnly, Trying, RollingBack
<1>7. Reading'
  BY <1>1, CheckStaleEffect DEF Attributed, Reading, CheckStale, At, Is, Kept, Marked,
     Unchanged, Present, RestoreOnly, AfterRead, Loaded, Trying, RollingBack
<1>8. Restoring'
  BY <1>1, CheckStaleEffect DEF Attributed, Restoring, CheckStale, At, Is, Kept, Marked,
     Unchanged, Early, Trying, RollingBack, Present, AfterRead
<1>9. Untouched'
  BY <1>1, CheckStaleEffect DEF Attributed, Restoring, Untouched, CheckStale, At, Is, Kept,
     Marked, Unchanged, Early, AfterRead, Trying, RollingBack, Present, Stale
<1>10. Temporary'
  BY <1>1, CheckStaleEffect DEF Attributed, Temporary, CheckStale, At, Is, Kept, Marked,
     Unchanged, Trying, RollingBack
<1> QED BY <1>4, <1>5, <1>6, <1>7, <1>8, <1>9, <1>10 DEF ArtifactInv

LEMMA UnlinkKeeps ==
  ASSUME ArtifactInv, Unlink
  PROVE  ArtifactInv'
<1>1. /\ ArtifactTypes /\ Attributed /\ Snapshots /\ Reading /\ Restoring /\ Untouched /\ Temporary
      /\ Proc(proc) /\ Present \subseteq Paths
  BY DEF ArtifactInv, ArtifactTypes, Present, Tree
<1>2. PICK z : z = Max(proc.todo)
  OBVIOUS
<1>3. z \in proc.todo /\ z \in Paths /\ z \in Stale
  BY <1>1, <1>2, MaxIn, PathsAreNumbers, ArtifactConstants DEF Unlink, Attributed,
     ArtifactTypes, At, Stale, Paths
<1>4. /\ Tree(tree') /\ DOMAIN tree' = Present \ {z}
      /\ \A y \in Present : y # z => tree'[y] = tree[y]
  BY <1>1, <1>2, WithoutOK DEF ArtifactTypes, Unlink
<1>5. ArtifactTypes'
  BY <1>1, <1>2, <1>3, UnlinkEffect, <1>4 DEF ArtifactTypes, Attributed, Unlink, At, Is,
     Kept, Marked, AfterUnchanged, Without, Steps, Ended, Trying, RollingBack, Commands,
     Present
<1>6. Attributed'
  <2>1. (proc.step \in RestoreOnly => Is("restore"))'
    BY <1>1, <1>2, <1>3, UnlinkEffect, <1>4 DEF Attributed, ArtifactTypes, At, Is, Kept,
       Marked, Unlink, AfterUnchanged, Without, RestoreOnly, Before, AfterRead, Loaded,
       Trying, RollingBack, Present, Stale
  <2>2. (At("finish") => ~Is("restore"))'
    BY <1>1, <1>2, <1>3, UnlinkEffect, <1>4 DEF Attributed, ArtifactTypes, At, Is, Kept,
       Marked, Unlink, AfterUnchanged, Without, RestoreOnly, Before, AfterRead, Loaded,
       Trying, RollingBack, Present, Stale
  <2>3. (At("idle") => Is("pack"))'
    BY <1>1, <1>2, <1>3, UnlinkEffect, <1>4 DEF Attributed, ArtifactTypes, At, Is, Kept,
       Marked, Unlink, AfterUnchanged, Without, RestoreOnly, Before, AfterRead, Loaded,
       Trying, RollingBack, Present, Stale
  <2>4. (At("load") => ~Is("pack"))'
    BY <1>1, <1>2, <1>3, UnlinkEffect, <1>4 DEF Attributed, ArtifactTypes, At, Is, Kept,
       Marked, Unlink, AfterUnchanged, Without, RestoreOnly, Before, AfterRead, Loaded,
       Trying, RollingBack, Present, Stale
  <2>5. (~Is("pack") /\ proc.step \in Loaded => archive # NoArchive)'
    BY <1>1, <1>2, <1>3, UnlinkEffect, <1>4 DEF Attributed, ArtifactTypes, At, Is, Kept,
       Marked, Unlink, AfterUnchanged, Without, RestoreOnly, Before, AfterRead, Loaded,
       Trying, RollingBack, Present, Stale
  <2>6. (proc.same \subseteq DOMAIN proc.saw /\ DOMAIN proc.saw \subseteq proc.paths)'
    <3>1. proc.same \subseteq DOMAIN proc.saw /\ DOMAIN proc.saw \subseteq proc.paths
      BY <1>1 DEF Attributed
    <3>2. /\ proc'.same = proc.same \ {z} /\ proc'.saw = proc.saw
          /\ proc'.paths = proc.paths
      BY <1>1, <1>2, UnlinkEffect DEF Kept
    <3> QED
      BY <3>1, <3>2
  <2>7. (proc.step \in Before => DOMAIN proc.saw = {})'
    BY <1>1, <1>2, <1>3, UnlinkEffect, <1>4 DEF Attributed, ArtifactTypes, At, Is, Kept,
       Marked, Unlink, AfterUnchanged, Without, RestoreOnly, Before, AfterRead, Loaded,
       Trying, RollingBack, Present, Stale
  <2>8. (proc.step \in AfterRead \cup {"load", "read"} => Index \in proc.paths)'
    BY <1>1, <1>2, <1>3, UnlinkEffect, <1>4 DEF Attributed, ArtifactTypes, At, Is, Kept,
       Marked, Unlink, AfterUnchanged, Without, RestoreOnly, Before, AfterRead, Loaded,
       Trying, RollingBack, Present, Stale
  <2>9. (At("read") => /\ proc.todo # {} /\ proc.todo \subseteq proc.paths
                       /\ proc.paths \ proc.todo \subseteq DOMAIN proc.saw)'
    BY <1>1, <1>2, <1>3, UnlinkEffect, <1>4 DEF Attributed, ArtifactTypes, At, Is, Kept,
       Marked, Unlink, AfterUnchanged, Without, RestoreOnly, Before, AfterRead, Loaded,
       Trying, RollingBack, Present, Stale
  <2>10. (proc.step \in AfterRead => DOMAIN proc.saw = proc.paths)'
    BY <1>1, <1>2, <1>3, UnlinkEffect, <1>4 DEF Attributed, ArtifactTypes, At, Is, Kept,
       Marked, Unlink, AfterUnchanged, Without, RestoreOnly, Before, AfterRead, Loaded,
       Trying, RollingBack, Present, Stale
  <2>11. (proc.step \in {"stage", "replace"} =>
           proc.todo # {} /\ proc.todo \subseteq DOMAIN archive.files)'
    BY <1>1, <1>2, <1>3, UnlinkEffect, <1>4 DEF Attributed, ArtifactTypes, At, Is, Kept,
       Marked, Unlink, AfterUnchanged, Without, RestoreOnly, Before, AfterRead, Loaded,
       Trying, RollingBack, Present, Stale
  <2>12. (proc.step \in {"stale", "unlink"} => proc.todo # {} /\ proc.todo \subseteq Stale)'
    BY <1>1, <1>2, <1>3, UnlinkEffect, <1>4 DEF Attributed, ArtifactTypes, At, Is, Kept,
       Marked, Unlink, AfterUnchanged, Without, RestoreOnly, Before, AfterRead, Loaded,
       Trying, RollingBack, Present, Stale
  <2>13. (At("rewrite") => proc.todo # {} /\ proc.todo \subseteq DOMAIN proc.saw)'
    BY <1>1, <1>2, <1>3, UnlinkEffect, <1>4 DEF Attributed, ArtifactTypes, At, Is, Kept,
       Marked, Unlink, AfterUnchanged, Without, RestoreOnly, Before, AfterRead, Loaded,
       Trying, RollingBack, Present, Stale
  <2> QED
    BY <2>1, <2>2, <2>3, <2>4, <2>5, <2>6, <2>7, <2>8, <2>9, <2>10, <2>11, <2>12, <2>13 DEF
       Attributed
<1>7. Snapshots'
  <2>1. (\A x \in proc.same : x \in Present /\ tree[x] = proc.saw[x])'
    <3>1. \A x \in proc.same : x \in Present /\ tree[x] = proc.saw[x]
      BY <1>1 DEF Snapshots
    <3>2. proc'.same = proc.same \ {z} /\ proc'.saw = proc.saw
      BY <1>1, <1>2, UnlinkEffect DEF Kept
    <3> QED
      BY <1>4, <3>1, <3>2 DEF Present
  <2>2. (~Is("restore") =>
           /\ \A x \in proc.same : Stood(x)
           /\ At("unchanged") => \A x \in proc.paths \ proc.todo : Stood(x)
           /\ proc.step \in {"finish", "done"} => \A x \in proc.paths : Stood(x))'
    BY <1>1, <1>2, <1>3, UnlinkEffect, <1>4 DEF Attributed, Snapshots, At, Is, Kept,
       Marked, Unlink, AfterUnchanged, Without, Stood, Present, AfterRead, Loaded,
       RestoreOnly, Trying, RollingBack
  <2>3. (Is("verify") =>
           /\ \A x \in DOMAIN proc.saw : proc.saw[x] = archive.files[x]
           /\ proc.step \in {"read", "unchanged", "finish", "done"} =>
                proc.paths = DOMAIN archive.files /\ archive.base = base)'
    BY <1>1, <1>2, <1>3, UnlinkEffect, <1>4 DEF Attributed, Snapshots, At, Is, Kept,
       Marked, Unlink, AfterUnchanged, Without, Stood, Present, AfterRead, Loaded,
       RestoreOnly, Trying, RollingBack
  <2>4. (Is("pack") /\ At("done") => archive.files = proc.saw)'
    BY <1>1, <1>2, <1>3, UnlinkEffect, <1>4 DEF Attributed, Snapshots, At, Is, Kept,
       Marked, Unlink, AfterUnchanged, Without, Stood, Present, AfterRead, Loaded,
       RestoreOnly, Trying, RollingBack
  <2> QED
    BY <2>1, <2>2, <2>3, <2>4 DEF Snapshots
<1>8. Reading'
  BY <1>1, <1>2, <1>3, UnlinkEffect, <1>4 DEF Attributed, Reading, Unlink, At, Is, Kept,
     Marked, AfterUnchanged, Without, Present, RestoreOnly, AfterRead, Loaded, Trying,
     RollingBack
<1>9. Restoring'
  <2>1. (Is("restore") /\ ~proc.torn)' => Is("restore") /\ ~proc.torn
    BY <1>1, <1>2, <1>3, UnlinkEffect, <1>4 DEF At, Is, Kept, Marked, Unlink,
       AfterUnchanged, Without, Early, Trying, RollingBack, Present, AfterRead
  <2>2. ASSUME (Is("restore") /\ ~proc.torn)'
        PROVE  (proc.ours \subseteq Present /\ proc.gone \subseteq DOMAIN proc.saw)'
    <3>1. /\ proc.ours = {} /\ proc.gone \subseteq DOMAIN proc.saw
          /\ z \in DOMAIN proc.saw
      BY <1>1, <1>3, <2>1, <2>2 DEF Restoring, Unlink, At, Attributed, Stale, AfterRead, Trying
    <3>2. proc'.ours = proc.ours /\ proc'.gone = proc.gone \cup {z} /\ proc'.saw = proc.saw
      BY <1>1, <1>2, UnlinkEffect DEF Kept
    <3> QED
      BY <3>1, <3>2
  <2> QED
    BY <1>1, <1>2, <1>3, UnlinkEffect, <1>4, <2>2 DEF Attributed, Restoring, At, Is, Kept,
       Marked, Unlink, AfterUnchanged, Without, Early, Trying, RollingBack, Present, AfterRead
<1>10. Untouched'
  <2>1. (Is("restore") /\ ~proc.torn /\ ~proc.edited)' =>
          Is("restore") /\ ~proc.torn /\ ~proc.edited
    BY <1>1, <1>2, <1>3, UnlinkEffect, <1>4 DEF At, Is, Kept, Marked, Unlink,
       AfterUnchanged, Without, Early, AfterRead, Trying, RollingBack, Present, Stale
  <2>2. ASSUME (Is("restore") /\ ~proc.torn /\ ~proc.edited)'
        PROVE  (\A x \in DOMAIN proc.saw : proc.saw[x] = proc.moment[x])'
    <3>1. \A x \in DOMAIN proc.saw : proc.saw[x] = proc.moment[x]
      BY <1>1, <2>1, <2>2 DEF Untouched
    <3>2. proc'.saw = proc.saw /\ proc'.moment = proc.moment
      BY <1>1, <1>2, UnlinkEffect DEF Kept
    <3> QED
      BY <3>1, <3>2
  <2>3. ASSUME (Is("restore") /\ ~proc.torn /\ ~proc.edited)'
        PROVE  (proc.step \in {"stale", "unlink"} =>
                  /\ proc.gone \cup proc.todo = Stale /\ proc.gone \cap proc.todo = {}
                  /\ Present = proc.paths \ proc.gone
                  /\ \A x \in Present : tree[x] = proc.moment[x])'
    <3>1. /\ proc.gone \cup proc.todo = Stale /\ proc.gone \cap proc.todo = {}
          /\ Present = proc.paths \ proc.gone /\ \A x \in Present : tree[x] = proc.moment[x]
      BY <1>1, <2>1, <2>3 DEF Untouched, Unlink, At
    <3>2. /\ Stale' = Stale /\ proc'.gone = proc.gone \cup {z} /\ proc'.paths = proc.paths
          /\ proc'.moment = proc.moment
      BY <1>1, <1>2, UnlinkEffect DEF Kept, Stale, Unlink
    <3>3. proc'.step \in {"stale", "unlink"} => proc'.todo = proc.todo \ {z}
      BY <1>1, <1>2, UnlinkEffect DEF AfterUnchanged
    <3> QED
      BY <1>3, <1>4, <3>1, <3>2, <3>3 DEF Present
  <2>4. ASSUME (Is("restore") /\ ~proc.torn /\ ~proc.edited)'
        PROVE  (At("replace") =>
                  /\ Present = (proc.paths \cap DOMAIN archive.files)
                                 \cup (DOMAIN archive.files \ proc.todo)
                  /\ \A x \in DOMAIN archive.files \ proc.todo : tree[x] = archive.files[x])'
    <3>1. proc.gone \cup proc.todo = Stale /\ Present = proc.paths \ proc.gone
      BY <1>1, <2>1, <2>4 DEF Untouched, Unlink, At
    <3>2. proc'.paths = proc.paths /\ archive' = archive
      BY <1>1, <1>2, UnlinkEffect DEF Kept, Unlink
    <3>3. proc'.step = "replace" => proc.todo = {z} /\ proc'.todo = DOMAIN archive.files
      BY <1>1, <1>2, <1>3, UnlinkEffect DEF AfterUnchanged
    <3> QED
      BY <1>3, <1>4, <3>1, <3>2, <3>3 DEF Present, Stale, At
  <2>5. proc'.step \in {"stale", "replace"}
    BY <1>1, <1>2, UnlinkEffect DEF AfterUnchanged
  <2>6. ASSUME (Is("restore") /\ ~proc.torn /\ ~proc.edited)'
        PROVE  (proc.paths = DOMAIN proc.moment)'
    <3>1. proc.paths = DOMAIN proc.moment
      BY <1>1, <2>1, <2>6 DEF Untouched, Unlink, At, AfterRead, Trying
    <3> QED
      BY <1>1, <1>2, <3>1, UnlinkEffect DEF Kept
  <2> QED
    BY <2>2, <2>3, <2>4, <2>5, <2>6 DEF Untouched, At, Early
<1>11. Temporary'
  BY <1>1, <1>2, <1>3, UnlinkEffect, <1>4 DEF Attributed, Temporary, Unlink, At, Is, Kept,
     Marked, AfterUnchanged, Without, Trying, RollingBack
<1> QED BY <1>5, <1>6, <1>7, <1>8, <1>9, <1>10, <1>11 DEF ArtifactInv

LEMMA ReplaceKeeps ==
  ASSUME ArtifactInv, Replace
  PROVE  ArtifactInv'
<1>1. /\ ArtifactTypes /\ Attributed /\ Snapshots /\ Reading /\ Restoring /\ Untouched /\ Temporary
      /\ Proc(proc) /\ Present \subseteq Paths
  BY DEF ArtifactInv, ArtifactTypes, Present, Tree
<1>2. PICK z : z = Min(proc.todo)
  OBVIOUS
<1>3. z \in proc.todo /\ z \in DOMAIN archive.files /\ z \in Paths
  BY <1>1, <1>2, MinIn, PathsAreNumbers DEF Replace, Attributed, ArtifactTypes, At, Loaded,
     AfterRead, Trying, RestoreOnly, Is, Tree
<1>4. /\ Tree(tree') /\ DOMAIN tree' = Present \cup {z} /\ tree'[z] = archive.files[z]
      /\ \A y \in Present : y # z => tree'[y] = tree[y]
  <2>1. PICK v : v = archive.files[z]
    OBVIOUS
  <2>2. Tree(tree) /\ tree' = With(z, v)
    BY <1>1, <1>2, <2>1 DEF ArtifactTypes, Replace
  <2>3. /\ Tree(With(z, v)) /\ DOMAIN With(z, v) = Present \cup {z} /\ With(z, v)[z] = v
        /\ \A y \in Present : y # z => With(z, v)[y] = tree[y]
    BY <1>3, <2>2, WithOK
  <2> QED
    BY <2>1, <2>2, <2>3
<1>own. /\ proc.step = "replace" /\ archive' = archive /\ base' = base /\ killed' = killed
        /\ proc'.cmd = proc.cmd /\ proc'.paths = proc.paths /\ proc'.saw = proc.saw
        /\ proc'.moment = proc.moment /\ proc'.edited = proc.edited
        /\ proc'.torn = proc.torn /\ proc'.committed = proc.committed
        /\ proc'.same = proc.same \ {z} /\ proc'.ours = proc.ours \cup {z}
        /\ proc'.gone = proc.gone
  BY <1>1, <1>2, ReplaceEffect DEF Replace, Kept, At
<1>on. /\ proc.todo = {z} => proc'.step = "recheck" /\ proc'.todo = {}
       /\ proc.todo # {z} => proc'.step = "replace" /\ proc'.todo = proc.todo \ {z}
  BY <1>1, <1>2, <1>own, ReplaceEffect DEF Advances
<1>restore. Is("restore") /\ Is("restore")'
  BY <1>1, <1>own DEF Attributed, Is, RestoreOnly, RollingBack
<1>5. ArtifactTypes'
  BY <1>1, <1>2, <1>3, ReplaceEffect, <1>4 DEF ArtifactTypes, Attributed, Replace, At, Is,
     Kept, Marked, Advances, With, Steps, Ended, Trying, RollingBack, Commands, Present
<1>6. Attributed'
  <2>1. /\ proc.same \subseteq DOMAIN proc.saw /\ DOMAIN proc.saw = proc.paths
        /\ Index \in proc.paths /\ archive # NoArchive /\ proc.todo \subseteq DOMAIN archive.files
    BY <1>1, <1>own, <1>restore DEF Attributed, Is, At, Loaded, AfterRead, Trying, RollingBack
  <2>2. /\ proc'.same \subseteq DOMAIN proc'.saw /\ DOMAIN proc'.saw = proc'.paths
        /\ Index \in proc'.paths /\ archive' # NoArchive
    BY <1>own, <2>1
  <2>3. /\ proc'.step \in {"replace", "recheck"}
        /\ proc'.step = "replace" => proc'.todo # {} /\ proc'.todo \subseteq DOMAIN archive'.files
    BY <1>3, <1>own, <1>on, <2>1
  <2> QED
    BY <1>restore, <2>2, <2>3 DEF Attributed, At, Is, Before
<1>7. Snapshots'
  <2>1. \A x \in proc'.same : x \in Present' /\ tree'[x] = proc'.saw[x]
    <3>1. \A x \in proc.same : x \in Present /\ tree[x] = proc.saw[x]
      BY <1>1 DEF Snapshots
    <3> QED
      BY <1>4, <1>own, <3>1 DEF Present
  <2>2. ~Is("verify")' /\ ~Is("pack")'
    BY <1>restore DEF Is
  <2> QED
    BY <1>restore, <2>1, <2>2 DEF Snapshots
<1>8. Reading'
  BY <1>1, <1>2, <1>3, ReplaceEffect, <1>4 DEF Attributed, Reading, Replace, At, Is, Kept,
     Marked, Advances, With, Present, RestoreOnly, AfterRead, Loaded, Trying, RollingBack
<1>9. Restoring'
  <2>1. ASSUME (Is("restore") /\ ~proc.torn)'
        PROVE  /\ proc.ours \subseteq Present /\ proc.gone \subseteq DOMAIN proc.saw
               /\ ~proc.committed
    BY <1>1, <1>own, <1>restore, <2>1 DEF Restoring, Trying
  <2>2. ASSUME (Is("restore") /\ ~proc.torn)'
        PROVE  /\ proc'.ours \subseteq Present' /\ proc'.gone \subseteq DOMAIN proc'.saw
               /\ ~proc'.committed /\ proc'.step \in {"replace", "recheck"}
    BY <1>4, <1>own, <1>on, <2>1, <2>2 DEF Present
  <2> QED
    BY <2>2 DEF Restoring, At, Early
<1>10. Untouched'
  <2>1. (Is("restore") /\ ~proc.torn /\ ~proc.edited)' =>
          Is("restore") /\ ~proc.torn /\ ~proc.edited
    BY <1>1, <1>2, <1>3, ReplaceEffect, <1>4 DEF At, Is, Kept, Marked, Advances, Replace,
       With, Early, AfterRead, Trying, RollingBack, Present, Stale
  <2>2. ASSUME (Is("restore") /\ ~proc.torn /\ ~proc.edited)'
        PROVE  (proc.step \in {"recheck", "compare", "final", "done"} => tree = archive.files)'
    <3>1. /\ Present = (proc.paths \cap DOMAIN archive.files)
                        \cup (DOMAIN archive.files \ proc.todo)
          /\ \A x \in DOMAIN archive.files \ proc.todo : tree[x] = archive.files[x]
      BY <1>1, <2>1, <2>2 DEF Untouched, Replace, At
    <3>2. SUFFICES ASSUME proc'.step \in {"recheck", "compare", "final", "done"}
                   PROVE  tree' = archive'.files
      OBVIOUS
    <3>3. proc.todo = {z} /\ archive' = archive
      BY <1>1, <1>2, <3>2, ReplaceEffect DEF Advances, Replace, At
    <3>4. Tree(archive.files)
      BY <1>1, <2>1, <2>2 DEF ArtifactTypes, Attributed, Replace, At, Loaded, AfterRead,
         Trying, Is
    <3>5. DOMAIN tree' = DOMAIN archive.files
      BY <1>3, <1>4, <3>1, <3>3
    <3>6. \A x \in DOMAIN archive.files : tree'[x] = archive.files[x]
      BY <1>3, <1>4, <3>1, <3>3
    <3> QED
      BY <1>4, <3>3, <3>4, <3>5, <3>6, SameTree
  <2>3. ASSUME (Is("restore") /\ ~proc.torn /\ ~proc.edited)'
        PROVE  /\ (proc.paths = DOMAIN proc.moment)'
               /\ (\A x \in DOMAIN proc.saw : proc.saw[x] = proc.moment[x])'
    BY <1>1, <1>own, <2>1, <2>3 DEF Untouched, AfterRead, Trying
  <2>4. ASSUME (Is("restore") /\ ~proc.torn /\ ~proc.edited)', proc.todo # {z}
        PROVE  (/\ Present = (proc.paths \cap DOMAIN archive.files)
                               \cup (DOMAIN archive.files \ proc.todo)
                /\ \A x \in DOMAIN archive.files \ proc.todo : tree[x] = archive.files[x])'
    <3>1. /\ Present = (proc.paths \cap DOMAIN archive.files)
                        \cup (DOMAIN archive.files \ proc.todo)
          /\ \A x \in DOMAIN archive.files \ proc.todo : tree[x] = archive.files[x]
      BY <1>1, <1>own, <2>1, <2>4 DEF Untouched, At
    <3>2. proc'.todo = proc.todo \ {z}
      BY <1>on, <2>4
    <3>3. Present' = (proc'.paths \cap DOMAIN archive'.files)
                       \cup (DOMAIN archive'.files \ proc'.todo)
      BY <1>3, <1>4, <1>own, <3>1, <3>2 DEF Present
    <3>4. \A x \in DOMAIN archive'.files \ proc'.todo : tree'[x] = archive'.files[x]
      BY <1>3, <1>4, <1>own, <3>1, <3>2 DEF Present
    <3> QED
      BY <3>3, <3>4
  <2>5. /\ proc'.step \in {"replace", "recheck"}
        /\ proc'.step = "replace" => proc.todo # {z}
    BY <1>on
  <2> QED
    BY <2>2, <2>3, <2>4, <2>5 DEF Untouched, At, Early
<1>11. Temporary'
  <2>1. /\ strays' = strays \ {<<"staged", z>>} /\ archive' = archive /\ killed' = killed
        /\ proc'.torn = proc.torn /\ proc'.cmd = proc.cmd /\ proc.step = "replace"
    BY <1>1, <1>2, ReplaceEffect DEF Replace, Kept, At
  <2>2. /\ proc'.step = "replace" \/ proc.todo = {z}
        /\ proc'.step # "idle"
        /\ proc'.step = "replace" => proc'.todo = proc.todo \ {z}
    BY <1>1, <1>2, ReplaceEffect DEF Replace, Advances, At
  <2>3. ASSUME Is("restore"), ~killed, ~proc.torn, NEW s \in strays', s[1] # "foreign"
        PROVE  /\ s[1] = "staged" /\ s[2] \in DOMAIN archive.files
               /\ s[2] \in proc.todo \ {z}
    <3>1. s[1] = "staged" /\ s[2] \in DOMAIN archive.files /\ s[2] \in proc.todo
      BY <1>1, <2>1, <2>3 DEF Temporary, At
    <3>2. s = <<s[1], s[2]>>
      BY <1>1, <2>1, <2>3 DEF ArtifactTypes, Temporaries, Foreign
    <3>3. s[2] # z
      BY <2>1, <2>3, <3>1, <3>2
    <3> QED
      BY <3>1, <3>3
  <2>4. ASSUME Is("restore"), ~killed, ~proc.torn, NEW s \in strays', s[1] # "foreign"
        PROVE  proc'.step = "replace" /\ s[2] \in proc'.todo
    <3>1. s[2] \in proc.todo \ {z}
      BY <2>3, <2>4
    <3> QED
      BY <2>2, <3>1
  <2>5. ASSUME Is("restore")', ~killed', ~(proc'.torn), NEW s \in strays', s[1] # "foreign"
        PROVE  /\ s[1] = "staged" /\ s[2] \in DOMAIN archive'.files
               /\ proc'.step = "replace" /\ s[2] \in proc'.todo
    BY <2>1, <2>3, <2>4, <2>5 DEF Is
  <2> QED
    BY <2>1, <2>2, <2>5 DEF Temporary, At, Is
<1> QED BY <1>5, <1>6, <1>7, <1>8, <1>9, <1>10, <1>11 DEF ArtifactInv

LEMMA RecheckKeeps ==
  ASSUME ArtifactInv, Recheck
  PROVE  ArtifactInv'
<1>1. /\ ArtifactTypes /\ Attributed /\ Snapshots /\ Reading /\ Restoring /\ Untouched /\ Temporary
      /\ Proc(proc) /\ Present \subseteq Paths
  BY DEF ArtifactInv, ArtifactTypes, Present, Tree
<1>4. ArtifactTypes'
  BY <1>1, RecheckEffect DEF ArtifactTypes, Attributed, Recheck, At, Is, Kept, Marked,
     Discoverable, Steps, Ended, Trying, RollingBack, Commands, Present
<1>5. Attributed'
  BY <1>1, RecheckEffect DEF Attributed, Recheck, At, Is, Kept, Marked, Discoverable,
     RestoreOnly, Before, AfterRead, Loaded, Trying, RollingBack, Present, Stale
<1>6. Snapshots'
  BY <1>1, RecheckEffect DEF Attributed, Snapshots, Recheck, At, Is, Kept, Marked,
     Discoverable, Stood, Present, AfterRead, Loaded, RestoreOnly, Trying, RollingBack
<1>7. Reading'
  BY <1>1, RecheckEffect DEF Attributed, Reading, Recheck, At, Is, Kept, Marked,
     Discoverable, Present, RestoreOnly, AfterRead, Loaded, Trying, RollingBack
<1>8. Restoring'
  BY <1>1, RecheckEffect DEF Attributed, Restoring, Recheck, At, Is, Kept, Marked,
     Discoverable, Early, Trying, RollingBack, Present, AfterRead
<1>9. Untouched'
  BY <1>1, RecheckEffect DEF Attributed, Restoring, Untouched, Recheck, At, Is, Kept,
     Marked, Discoverable, Early, AfterRead, Trying, RollingBack, Present, Stale
<1>10. Temporary'
  BY <1>1, RecheckEffect DEF Attributed, Temporary, Recheck, At, Is, Kept, Marked,
     Discoverable, Trying, RollingBack
<1> QED BY <1>4, <1>5, <1>6, <1>7, <1>8, <1>9, <1>10 DEF ArtifactInv

LEMMA CompareKeeps ==
  ASSUME ArtifactInv, Compare
  PROVE  ArtifactInv'
<1>1. /\ ArtifactTypes /\ Attributed /\ Snapshots /\ Reading /\ Restoring /\ Untouched /\ Temporary
      /\ Proc(proc) /\ Present \subseteq Paths
  BY DEF ArtifactInv, ArtifactTypes, Present, Tree
<1>2. PICK z : z = Min(proc.todo)
  OBVIOUS
<1>4. ArtifactTypes'
  BY <1>1, <1>2, CompareEffect DEF ArtifactTypes, Attributed, Compare, At, Is, Kept,
     Marked, Advances, Steps, Ended, Trying, RollingBack, Commands, Present
<1>5. Attributed'
  BY <1>1, <1>2, CompareEffect DEF Attributed, Compare, At, Is, Kept, Marked, Advances,
     RestoreOnly, Before, AfterRead, Loaded, Trying, RollingBack, Present, Stale
<1>6. Snapshots'
  BY <1>1, <1>2, CompareEffect DEF Attributed, Snapshots, Compare, At, Is, Kept, Marked,
     Advances, Stood, Present, AfterRead, Loaded, RestoreOnly, Trying, RollingBack
<1>7. Reading'
  BY <1>1, <1>2, CompareEffect DEF Attributed, Reading, Compare, At, Is, Kept, Marked,
     Advances, Present, RestoreOnly, AfterRead, Loaded, Trying, RollingBack
<1>8. Restoring'
  BY <1>1, <1>2, CompareEffect DEF Attributed, Restoring, Compare, At, Is, Kept, Marked,
     Advances, Early, Trying, RollingBack, Present, AfterRead
<1>9. Untouched'
  BY <1>1, <1>2, CompareEffect DEF Attributed, Restoring, Untouched, Compare, At, Is, Kept,
     Marked, Advances, Early, AfterRead, Trying, RollingBack, Present, Stale
<1>10. Temporary'
  BY <1>1, <1>2, CompareEffect DEF Attributed, Temporary, Compare, At, Is, Kept, Marked,
     Advances, Trying, RollingBack
<1> QED BY <1>4, <1>5, <1>6, <1>7, <1>8, <1>9, <1>10 DEF ArtifactInv

LEMMA FinalKeeps ==
  ASSUME ArtifactInv, Final
  PROVE  ArtifactInv'
<1>1. /\ ArtifactTypes /\ Attributed /\ Snapshots /\ Reading /\ Restoring /\ Untouched /\ Temporary
      /\ Proc(proc) /\ Present \subseteq Paths
  BY DEF ArtifactInv, ArtifactTypes, Present, Tree
<1>4. ArtifactTypes'
  BY <1>1, EndEffect DEF ArtifactTypes, Attributed, Final, At, Is, Kept, Marked,
     StateHolds, Discoverable, Steps, Ended, Trying, RollingBack, Commands, Present
<1>5. Attributed'
  BY <1>1, EndEffect DEF Attributed, Final, At, Is, Kept, Marked, StateHolds, Discoverable,
     RestoreOnly, Before, AfterRead, Loaded, Trying, RollingBack, Present, Stale
<1>6. Snapshots'
  BY <1>1, EndEffect DEF Attributed, Snapshots, Final, At, Is, Kept, Marked, StateHolds,
     Discoverable, Stood, Present, AfterRead, Loaded, RestoreOnly, Trying, RollingBack
<1>7. Reading'
  BY <1>1, EndEffect DEF Attributed, Reading, Final, At, Is, Kept, Marked, StateHolds,
     Discoverable, Present, RestoreOnly, AfterRead, Loaded, Trying, RollingBack
<1>8. Restoring'
  BY <1>1, EndEffect DEF Attributed, Restoring, Final, At, Is, Kept, Marked, StateHolds,
     Discoverable, Early, Trying, RollingBack, Present, AfterRead
<1>9. Untouched'
  BY <1>1, EndEffect DEF Attributed, Restoring, Untouched, Final, At, Is, Kept, Marked,
     StateHolds, Discoverable, Early, AfterRead, Trying, RollingBack, Present, Stale
<1>10. Temporary'
  BY <1>1, EndEffect DEF Attributed, Temporary, Final, At, Is, Kept, Marked, StateHolds,
     Discoverable, Trying, RollingBack
<1> QED BY <1>4, <1>5, <1>6, <1>7, <1>8, <1>9, <1>10 DEF ArtifactInv

LEMMA FinishKeeps ==
  ASSUME ArtifactInv, Finish
  PROVE  ArtifactInv'
<1>1. /\ ArtifactTypes /\ Attributed /\ Snapshots /\ Reading /\ Restoring /\ Untouched /\ Temporary
      /\ Proc(proc) /\ Present \subseteq Paths
  BY DEF ArtifactInv, ArtifactTypes, Present, Tree
<1>4. ArtifactTypes'
  <2>1. (archive # NoArchive => Tree(archive.files) /\ DOMAIN archive.files # {})'
    <3>1. Index \in DOMAIN proc.saw /\ Tree(proc.saw)
      BY <1>1 DEF Attributed, ArtifactTypes, Finish, At, AfterRead
    <3> QED
      BY <1>1, <3>1 DEF ArtifactTypes, Finish
  <2> QED
    BY <1>1, EndEffect, <2>1 DEF ArtifactTypes, Attributed, At, Is, Kept, Marked, Finish,
       StateHolds, Discoverable, Steps, Ended, Trying, RollingBack, Commands, Present
<1>5. Attributed'
  BY <1>1, EndEffect DEF Attributed, Finish, At, Is, Kept, Marked, StateHolds,
     Discoverable, RestoreOnly, Before, AfterRead, Loaded, Trying, RollingBack, Present, Stale
<1>6. Snapshots'
  BY <1>1, EndEffect DEF Attributed, Snapshots, Finish, At, Is, Kept, Marked, StateHolds,
     Discoverable, Stood, Present, AfterRead, Loaded, RestoreOnly, Trying, RollingBack
<1>7. Reading'
  BY <1>1, EndEffect DEF Attributed, Reading, Finish, At, Is, Kept, Marked, StateHolds,
     Discoverable, Present, RestoreOnly, AfterRead, Loaded, Trying, RollingBack
<1>8. Restoring'
  BY <1>1, EndEffect DEF Attributed, Restoring, Finish, At, Is, Kept, Marked, StateHolds,
     Discoverable, Early, Trying, RollingBack, Present, AfterRead
<1>9. Untouched'
  BY <1>1, EndEffect DEF Attributed, Restoring, Untouched, Finish, At, Is, Kept, Marked,
     StateHolds, Discoverable, Early, AfterRead, Trying, RollingBack, Present, Stale
<1>10. Temporary'
  BY <1>1, EndEffect DEF Attributed, Temporary, Finish, At, Is, Kept, Marked, StateHolds,
     Discoverable, Trying, RollingBack
<1> QED BY <1>4, <1>5, <1>6, <1>7, <1>8, <1>9, <1>10 DEF ArtifactInv

LEMMA RaiseUndoKeeps ==
  ASSUME ArtifactInv, Is("restore"), proc.step \in Trying, Proc(proc'), Marked(proc', proc),
         proc'.cmd = proc.cmd, proc'.paths = proc.paths, proc'.saw = proc.saw,
         proc'.moment = proc.moment, proc'.edited = proc.edited, proc'.torn = proc.torn,
         proc'.step = "clear", proc'.todo = Present \ {Index}, strays' = NotStaged,
         UNCHANGED <<tree, base, archive, killed, edits>>
  PROVE  ArtifactInv'
<1>1. /\ ArtifactTypes /\ Attributed /\ Snapshots /\ Reading /\ Restoring /\ Untouched /\ Temporary
      /\ Proc(proc) /\ Present \subseteq Paths
  BY DEF ArtifactInv, ArtifactTypes, Present, Tree
<1>4. ArtifactTypes'
  BY <1>1 DEF ArtifactTypes, Attributed, At, Is, Kept, Marked, NotStaged, Steps, Ended,
     Trying, RollingBack, Commands, Present
<1>5. Attributed'
  BY <1>1 DEF Attributed, At, Is, Kept, Marked, NotStaged, RestoreOnly, Before, AfterRead,
     Loaded, Trying, RollingBack, Present, Stale
<1>6. Snapshots'
  BY <1>1 DEF Attributed, Snapshots, At, Is, Kept, Marked, NotStaged, Stood, Present,
     AfterRead, Loaded, RestoreOnly, Trying, RollingBack
<1>7. Reading'
  BY <1>1 DEF Attributed, Reading, At, Is, Kept, Marked, NotStaged, Present, RestoreOnly,
     AfterRead, Loaded, Trying, RollingBack
<1>8. Restoring'
  BY <1>1 DEF Attributed, Restoring, At, Is, Kept, Marked, NotStaged, Early, Trying,
     RollingBack, Present, AfterRead
<1>9. Untouched'
  BY <1>1 DEF Attributed, Restoring, Untouched, At, Is, Kept, Marked, NotStaged, Early,
     AfterRead, Trying, RollingBack, Present, Stale
<1>10. Temporary'
  BY <1>1 DEF Attributed, Temporary, At, Is, Kept, Marked, NotStaged, Trying, RollingBack
<1> QED BY <1>4, <1>5, <1>6, <1>7, <1>8, <1>9, <1>10 DEF ArtifactInv

LEMMA RaiseTornKeeps ==
  ASSUME ArtifactInv, proc.step \in RollingBack, Proc(proc'), Marked(proc', proc),
         proc'.cmd = proc.cmd, proc'.paths = proc.paths, proc'.saw = proc.saw,
         proc'.moment = proc.moment, proc'.edited = proc.edited, proc'.torn = TRUE,
         proc'.step = "failed", strays' \subseteq strays \cup Temporaries,
         UNCHANGED <<tree, base, archive, killed, edits>>
  PROVE  ArtifactInv'
<1>1. /\ ArtifactTypes /\ Attributed /\ Snapshots /\ Reading /\ Restoring /\ Untouched /\ Temporary
      /\ Proc(proc) /\ Present \subseteq Paths
  BY DEF ArtifactInv, ArtifactTypes, Present, Tree
<1>4. ArtifactTypes'
  BY <1>1 DEF ArtifactTypes, Attributed, At, Is, Kept, Marked, Steps, Ended, Trying,
     RollingBack, Commands, Present
<1>5. Attributed'
  BY <1>1 DEF Attributed, At, Is, Kept, Marked, RestoreOnly, Before, AfterRead, Loaded,
     Trying, RollingBack, Present, Stale
<1>6. Snapshots'
  BY <1>1 DEF Attributed, Snapshots, At, Is, Kept, Marked, Stood, Present, AfterRead,
     Loaded, RestoreOnly, Trying, RollingBack
<1>7. Reading'
  BY <1>1 DEF Attributed, Reading, At, Is, Kept, Marked, Present, RestoreOnly, AfterRead,
     Loaded, Trying, RollingBack
<1>8. Restoring'
  BY <1>1 DEF Attributed, Restoring, At, Is, Kept, Marked, Early, Trying, RollingBack,
     Present, AfterRead
<1>9. Untouched'
  BY <1>1 DEF Attributed, Restoring, Untouched, At, Is, Kept, Marked, Early, AfterRead,
     Trying, RollingBack, Present, Stale
<1>10. Temporary'
  BY <1>1 DEF Attributed, Temporary, At, Is, Kept, Marked, Trying, RollingBack
<1> QED BY <1>4, <1>5, <1>6, <1>7, <1>8, <1>9, <1>10 DEF ArtifactInv

LEMMA RaiseFailKeeps ==
  ASSUME ArtifactInv, Running, ~(Is("restore") /\ proc.step \in Trying),
         proc.step \notin RollingBack, Proc(proc'), Marked(proc', proc),
         proc'.cmd = proc.cmd, proc'.paths = proc.paths, proc'.saw = proc.saw,
         proc'.moment = proc.moment, proc'.edited = proc.edited, proc'.torn = proc.torn,
         proc'.step = "failed",
         UNCHANGED <<tree, strays, base, archive, killed, edits>>
  PROVE  ArtifactInv'
<1>1. /\ ArtifactTypes /\ Attributed /\ Snapshots /\ Reading /\ Restoring /\ Untouched /\ Temporary
      /\ Proc(proc) /\ Present \subseteq Paths
  BY DEF ArtifactInv, ArtifactTypes, Present, Tree
<1>4. ArtifactTypes'
  BY <1>1 DEF ArtifactTypes, Attributed, At, Is, Kept, Marked, Running, Ended, Steps,
     Trying, RollingBack, Commands, Present
<1>5. Attributed'
  BY <1>1 DEF Attributed, At, Is, Kept, Marked, Running, Ended, RestoreOnly, Before,
     AfterRead, Loaded, Trying, RollingBack, Present, Stale
<1>6. Snapshots'
  BY <1>1 DEF Attributed, Snapshots, At, Is, Kept, Marked, Running, Ended, Stood, Present,
     AfterRead, Loaded, RestoreOnly, Trying, RollingBack
<1>7. Reading'
  BY <1>1 DEF Attributed, Reading, At, Is, Kept, Marked, Running, Ended, Present,
     RestoreOnly, AfterRead, Loaded, Trying, RollingBack
<1>8. Restoring'
  <2>1. (Is("restore") /\ ~proc.torn)' => Is("restore") /\ ~proc.torn
    BY <1>1 DEF At, Is, Kept, Marked, Running, Ended, Early, Trying, RollingBack, Present,
       AfterRead
  <2>2. ASSUME (Is("restore") /\ ~proc.torn)'
        PROVE  (At("failed") /\ ~proc.committed => proc.ours = {} /\ proc.gone = {})'
    <3>1. proc.step \in Early \/ proc.step = "final"
      BY <1>1, <2>1, <2>2 DEF ArtifactTypes, Steps, Running, Early, Trying, RollingBack,
         Attributed, At
    <3> QED
      BY <1>1, <2>1, <2>2, <3>1 DEF Restoring, Marked
  <2> QED
    BY <1>1, <2>2 DEF Attributed, Restoring, At, Is, Kept, Marked, Running, Ended, Early,
       Trying, RollingBack, Present, AfterRead
<1>9. Untouched'
  <2>1. (Is("restore") /\ ~proc.torn /\ ~proc.edited)' =>
          Is("restore") /\ ~proc.torn /\ ~proc.edited
    BY <1>1 DEF At, Is, Kept, Marked, Running, Ended, Early, AfterRead, Trying,
       RollingBack, Present, Stale
  <2>2. ASSUME (Is("restore") /\ ~proc.torn /\ ~proc.edited)'
        PROVE  (At("failed") => tree = IF proc.committed THEN archive.files ELSE proc.moment)'
    <3>1. proc.step \in Early \/ proc.step = "final"
      BY <1>1, <2>1, <2>2 DEF ArtifactTypes, Steps, Running, Early, Trying, RollingBack,
         Attributed, At
    <3>2. proc.step \in Early => tree = proc.moment /\ ~proc.committed
      BY <1>1, <2>1, <2>2 DEF Untouched, Restoring
    <3>3. proc.step = "final" => tree = archive.files /\ proc.committed
      BY <1>1, <2>1, <2>2 DEF Untouched, Restoring
    <3> QED
      BY <3>1, <3>2, <3>3 DEF Marked
  <2> QED
    BY <1>1, <2>2 DEF Attributed, Restoring, Untouched, At, Is, Kept, Marked, Running,
       Ended, Early, AfterRead, Trying, RollingBack, Present, Stale
<1>10. Temporary'
  BY <1>1 DEF Attributed, Temporary, At, Is, Kept, Marked, Running, Ended, Trying,
     RollingBack
<1> QED BY <1>4, <1>5, <1>6, <1>7, <1>8, <1>9, <1>10 DEF ArtifactInv

LEMMA RaiseKeeps ==
  ASSUME ArtifactInv, Raise
  PROVE  ArtifactInv'
<1>1. Proc(proc) /\ UNCHANGED <<tree, base, archive, killed, edits>>
  BY DEF ArtifactInv, ArtifactTypes, Raise
<1>2. strays' \subseteq strays \cup Temporaries
  <2>1. At("rewrite") => Min(proc.todo) \in Paths
    BY MinIn, PathsAreNumbers DEF ArtifactInv, ArtifactTypes, Attributed, At
  <2> QED
    BY <2>1 DEF Raise, NotStaged, Temporaries
<1>3. CASE /\ Is("restore") /\ proc.step \in Trying
           /\ proc'.step = "clear" /\ proc'.todo = Present \ {Index}
           /\ proc'.torn = proc.torn /\ strays' = NotStaged
  BY <1>1, <1>3, RaiseEffect, RaiseUndoKeeps
<1>4. CASE proc.step \in RollingBack /\ proc'.step = "failed" /\ proc'.torn = TRUE
  BY <1>1, <1>2, <1>4, RaiseEffect, RaiseTornKeeps
<1>5. CASE /\ ~(Is("restore") /\ proc.step \in Trying) /\ proc.step \notin RollingBack
           /\ proc'.step = "failed" /\ proc'.torn = proc.torn /\ strays' = strays
  <2>1. Running
    BY DEF Raise
  <2> QED
    BY <1>1, <1>5, <2>1, RaiseEffect, RaiseFailKeeps
<1> QED
  BY <1>1, <1>3, <1>4, <1>5, RaiseEffect

LEMMA ClearOneKeeps ==
  ASSUME ArtifactInv, At("clear"), NEW z \in proc.todo \cap Present, tree' = Without(z),
         Proc(proc'), Kept(proc', proc), proc'.gone = proc.gone,
         proc'.committed = proc.committed, proc'.step = proc.step,
         proc'.todo = proc.todo \ {z}, proc'.ours = proc.ours \ {z},
         proc'.same = proc.same \ {z}, UNCHANGED <<strays, base, archive, killed, edits>>
  PROVE  ArtifactInv'
<1>1. /\ ArtifactTypes /\ Attributed /\ Snapshots /\ Reading /\ Restoring /\ Untouched /\ Temporary
      /\ Proc(proc) /\ Present \subseteq Paths
  BY DEF ArtifactInv, ArtifactTypes, Present, Tree
<1>4. /\ Tree(tree') /\ DOMAIN tree' = Present \ {z}
      /\ \A y \in Present : y # z => tree'[y] = tree[y]
  BY <1>1, WithoutOK DEF ArtifactTypes
<1>5. ArtifactTypes'
  BY <1>1, <1>4 DEF ArtifactTypes, Attributed, At, Is, Kept, Marked, Steps, Ended, Trying,
     RollingBack, Commands, Present
<1>6. Attributed'
  BY <1>1, <1>4 DEF Attributed, At, Is, Kept, Marked, RestoreOnly, Before, AfterRead,
     Loaded, Trying, RollingBack, Present, Stale
<1>7. Snapshots'
  BY <1>1, <1>4 DEF Attributed, Snapshots, At, Is, Kept, Marked, Stood, Present, AfterRead,
     Loaded, RestoreOnly, Trying, RollingBack
<1>8. Reading'
  BY <1>1, <1>4 DEF Attributed, Reading, At, Is, Kept, Marked, Present, RestoreOnly,
     AfterRead, Loaded, Trying, RollingBack
<1>9. Restoring'
  BY <1>1, <1>4 DEF Attributed, Restoring, At, Is, Kept, Marked, Early, Trying,
     RollingBack, Present, AfterRead
<1>10. Untouched'
  BY <1>1, <1>4 DEF Attributed, Restoring, Untouched, At, Is, Kept, Marked, Early,
     AfterRead, Trying, RollingBack, Present, Stale
<1>11. Temporary'
  BY <1>1, <1>4 DEF Attributed, Temporary, At, Is, Kept, Marked, Trying, RollingBack
<1> QED BY <1>5, <1>6, <1>7, <1>8, <1>9, <1>10, <1>11 DEF ArtifactInv

LEMMA ClearAllKeeps ==
  ASSUME ArtifactInv, At("clear"), proc.todo = {}, proc'.step = "rewrite",
         proc'.todo = DOMAIN proc.saw, Proc(proc'), Kept(proc', proc), Marked(proc', proc),
         UNCHANGED <<tree, strays, base, archive, killed, edits>>
  PROVE  ArtifactInv'
<1>1. /\ ArtifactTypes /\ Attributed /\ Snapshots /\ Reading /\ Restoring /\ Untouched /\ Temporary
      /\ Proc(proc) /\ Present \subseteq Paths
  BY DEF ArtifactInv, ArtifactTypes, Present, Tree
<1>4. ArtifactTypes'
  BY <1>1 DEF ArtifactTypes, Attributed, At, Is, Kept, Marked, Trying, Steps, Ended,
     RollingBack, Commands, Present
<1>5. Attributed'
  BY <1>1 DEF Attributed, At, Is, Kept, Marked, Trying, RestoreOnly, Before, AfterRead,
     Loaded, RollingBack, Present, Stale
<1>6. Snapshots'
  BY <1>1 DEF Attributed, Snapshots, At, Is, Kept, Marked, Trying, Stood, Present,
     AfterRead, Loaded, RestoreOnly, RollingBack
<1>7. Reading'
  BY <1>1 DEF Attributed, Reading, At, Is, Kept, Marked, Trying, Present, RestoreOnly,
     AfterRead, Loaded, RollingBack
<1>8. Restoring'
  BY <1>1 DEF Attributed, Restoring, At, Is, Kept, Marked, Trying, Early, RollingBack,
     Present, AfterRead
<1>9. Untouched'
  BY <1>1 DEF Attributed, Restoring, Untouched, At, Is, Kept, Marked, Trying, Early,
     AfterRead, RollingBack, Present, Stale
<1>10. Temporary'
  BY <1>1 DEF Attributed, Temporary, At, Is, Kept, Marked, Trying, RollingBack
<1> QED BY <1>4, <1>5, <1>6, <1>7, <1>8, <1>9, <1>10 DEF ArtifactInv

LEMMA ClearKeeps ==
  ASSUME ArtifactInv, Clear
  PROVE  ArtifactInv'
<1>1. Proc(proc) /\ At("clear") /\ UNCHANGED <<strays, base, archive, killed, edits>>
  BY DEF ArtifactInv, ArtifactTypes, Clear
<1>2. CASE \E z \in proc.todo \cap Present :
             /\ tree' = Without(z) /\ proc'.step = proc.step
             /\ proc'.todo = proc.todo \ {z} /\ proc'.ours = proc.ours \ {z}
             /\ proc'.same = proc.same \ {z}
  BY <1>1, <1>2, ClearEffect, ClearOneKeeps
<1>3. CASE /\ proc.todo = {} /\ tree' = tree
           /\ proc'.step = "rewrite" /\ proc'.todo = DOMAIN proc.saw
           /\ proc'.same = proc.same /\ proc'.ours = proc.ours
  BY <1>1, <1>3, ClearEffect, ClearAllKeeps DEF Marked
<1> QED
  BY <1>1, <1>2, <1>3, ClearEffect

LEMMA RewriteKeeps ==
  ASSUME ArtifactInv, Rewrite
  PROVE  ArtifactInv'
<1>1. /\ ArtifactTypes /\ Attributed /\ Snapshots /\ Reading /\ Restoring /\ Untouched /\ Temporary
      /\ Proc(proc) /\ Present \subseteq Paths
  BY DEF ArtifactInv, ArtifactTypes, Present, Tree
<1>2. PICK z : z = Min(proc.todo)
  OBVIOUS
<1>3. z \in proc.todo /\ z \in DOMAIN proc.saw /\ z \in Paths
  BY <1>1, <1>2, MinIn, PathsAreNumbers DEF Rewrite, Attributed, ArtifactTypes, At
<1>4. /\ Tree(tree') /\ DOMAIN tree' = Present \cup {z} /\ tree'[z] = proc.saw[z]
      /\ \A y \in Present : y # z => tree'[y] = tree[y]
  <2>1. PICK v : v = proc.saw[z]
    OBVIOUS
  <2>2. Tree(tree) /\ tree' = With(z, v)
    BY <1>1, <1>2, <2>1 DEF ArtifactTypes, Rewrite
  <2>3. /\ Tree(With(z, v)) /\ DOMAIN With(z, v) = Present \cup {z} /\ With(z, v)[z] = v
        /\ \A y \in Present : y # z => With(z, v)[y] = tree[y]
    BY <1>3, <2>2, WithOK
  <2> QED
    BY <2>1, <2>2, <2>3
<1>own. /\ proc.step = "rewrite" /\ archive' = archive /\ base' = base /\ killed' = killed
        /\ proc'.cmd = proc.cmd /\ proc'.paths = proc.paths /\ proc'.saw = proc.saw
        /\ proc'.moment = proc.moment /\ proc'.edited = proc.edited
        /\ proc'.torn = proc.torn /\ proc'.committed = proc.committed
        /\ proc'.same = proc.same \ {z} /\ proc'.ours = proc.ours \ {z}
        /\ proc'.gone = proc.gone \ {z}
  BY <1>1, <1>2, RewriteEffect DEF Rewrite, Kept, At
<1>on. /\ proc.todo = {z} => proc'.step = "failed" /\ proc'.todo = {}
       /\ proc.todo # {z} => proc'.step = "rewrite" /\ proc'.todo = proc.todo \ {z}
  BY <1>1, <1>2, <1>own, RewriteEffect DEF Advances
<1>restore. Is("restore") /\ Is("restore")'
  BY <1>1, <1>own DEF Attributed, Is, RestoreOnly, RollingBack
<1>5. ArtifactTypes'
  BY <1>1, <1>2, <1>3, RewriteEffect, <1>4 DEF ArtifactTypes, Attributed, Rewrite, At, Is,
     Kept, Marked, Advances, With, Steps, Ended, Trying, RollingBack, Commands, Present
<1>6. Attributed'
  <2>1. /\ proc.same \subseteq DOMAIN proc.saw /\ DOMAIN proc.saw = proc.paths
        /\ Index \in proc.paths /\ archive # NoArchive /\ proc.todo \subseteq DOMAIN proc.saw
    BY <1>1, <1>own, <1>restore DEF Attributed, Is, At, Loaded, AfterRead, Trying, RollingBack
  <2>2. /\ proc'.same \subseteq DOMAIN proc'.saw /\ DOMAIN proc'.saw = proc'.paths
        /\ Index \in proc'.paths /\ archive' # NoArchive
    BY <1>own, <2>1
  <2>3. /\ proc'.step \in {"rewrite", "failed"}
        /\ proc'.step = "rewrite" => proc'.todo # {} /\ proc'.todo \subseteq DOMAIN proc'.saw
    BY <1>3, <1>own, <1>on, <2>1
  <2> QED
    BY <1>restore, <2>2, <2>3 DEF Attributed, At, Is, Before
<1>7. Snapshots'
  <2>1. \A x \in proc'.same : x \in Present' /\ tree'[x] = proc'.saw[x]
    <3>1. \A x \in proc.same : x \in Present /\ tree[x] = proc.saw[x]
      BY <1>1 DEF Snapshots
    <3> QED
      BY <1>4, <1>own, <3>1 DEF Present
  <2>2. ~Is("verify")' /\ ~Is("pack")'
    BY <1>restore DEF Is
  <2> QED
    BY <1>restore, <2>1, <2>2 DEF Snapshots
<1>8. Reading'
  BY <1>1, <1>2, <1>3, RewriteEffect, <1>4 DEF Attributed, Reading, Rewrite, At, Is, Kept,
     Marked, Advances, With, Present, RestoreOnly, AfterRead, Loaded, Trying, RollingBack
<1>9. Restoring'
  <2>1. ASSUME (Is("restore") /\ ~proc.torn)'
        PROVE  /\ proc.ours \subseteq Present /\ proc.gone \subseteq DOMAIN proc.saw
               /\ proc.ours \subseteq proc.todo /\ proc.gone \subseteq proc.todo
               /\ ~proc.committed
    BY <1>1, <1>own, <1>restore, <2>1 DEF Restoring, At, RollingBack
  <2>2. ASSUME (Is("restore") /\ ~proc.torn)'
        PROVE  /\ proc'.ours \subseteq Present' /\ proc'.gone \subseteq DOMAIN proc'.saw
               /\ ~proc'.committed
    BY <1>4, <1>own, <2>1, <2>2 DEF Present
  <2>3. ASSUME (Is("restore") /\ ~proc.torn)'
        PROVE  /\ proc'.step \in {"rewrite", "failed"}
               /\ proc'.step = "rewrite" => proc'.ours \subseteq proc'.todo
                                             /\ proc'.gone \subseteq proc'.todo
               /\ proc'.step = "failed" => proc'.ours = {} /\ proc'.gone = {}
    BY <1>own, <1>on, <2>1, <2>3
  <2> QED
    BY <2>2, <2>3 DEF Restoring, At, Early
<1>10. Untouched'
  <2>1. (Is("restore") /\ ~proc.torn /\ ~proc.edited)' =>
          Is("restore") /\ ~proc.torn /\ ~proc.edited
    BY <1>1, <1>2, <1>3, RewriteEffect, <1>4 DEF At, Is, Kept, Marked, Advances, Rewrite,
       With, Early, AfterRead, Trying, RollingBack, Present, Stale
  <2>2. ASSUME (Is("restore") /\ ~proc.torn /\ ~proc.edited)'
        PROVE  (At("failed") => tree = IF proc.committed THEN archive.files ELSE proc.moment)'
    <3>1. SUFFICES ASSUME proc'.step = "failed"
                   PROVE  tree' = proc'.moment /\ ~proc'.committed
      BY DEF At
    <3>2. /\ proc.todo = {z} /\ proc'.moment = proc.moment /\ proc'.committed = proc.committed
      BY <1>1, <1>2, <3>1, RewriteEffect DEF Advances, Rewrite, At, Kept
    <3>3. /\ Present \subseteq {Index} \cup (DOMAIN proc.saw \ {z}) /\ Index \in DOMAIN proc.saw
          /\ \A x \in DOMAIN proc.saw \ {z} : x \in Present /\ tree[x] = proc.saw[x]
      BY <1>1, <2>1, <2>2, <3>2 DEF Untouched, Rewrite, At, Attributed, AfterRead, RollingBack
    <3>4. /\ DOMAIN proc.saw = DOMAIN proc.moment /\ ~proc.committed
          /\ \A x \in DOMAIN proc.saw : proc.saw[x] = proc.moment[x]
      BY <1>1, <2>1, <2>2 DEF Untouched, Restoring, Rewrite, At, Attributed, AfterRead,
         RollingBack
    <3>5. DOMAIN tree' = DOMAIN proc.moment /\ \A x \in DOMAIN tree' : tree'[x] = proc.moment[x]
      BY <1>3, <1>4, <3>3, <3>4
    <3>6. Tree(proc.moment)
      BY <1>1 DEF ArtifactTypes
    <3>7. tree' = proc.moment
      BY <1>4, <3>5, <3>6, SameTree
    <3> QED
      BY <3>2, <3>4, <3>7
  <2>3. ASSUME (Is("restore") /\ ~proc.torn /\ ~proc.edited)'
        PROVE  /\ (proc.paths = DOMAIN proc.moment)'
               /\ (\A x \in DOMAIN proc.saw : proc.saw[x] = proc.moment[x])'
    BY <1>1, <1>own, <2>1, <2>3 DEF Untouched, AfterRead, RollingBack
  <2>4. ASSUME (Is("restore") /\ ~proc.torn /\ ~proc.edited)', proc.todo # {z}
        PROVE  (/\ Present \subseteq {Index} \cup (DOMAIN proc.saw \ proc.todo)
                /\ \A x \in DOMAIN proc.saw \ proc.todo : x \in Present /\ tree[x] = proc.saw[x])'
    <3>1. /\ Present \subseteq {Index} \cup (DOMAIN proc.saw \ proc.todo)
          /\ \A x \in DOMAIN proc.saw \ proc.todo : x \in Present /\ tree[x] = proc.saw[x]
      BY <1>1, <1>own, <2>1, <2>4 DEF Untouched, At
    <3>2. proc'.todo = proc.todo \ {z}
      BY <1>on, <2>4
    <3>3. Present' \subseteq {Index} \cup (DOMAIN proc'.saw \ proc'.todo)
      BY <1>3, <1>4, <1>own, <3>1, <3>2 DEF Present
    <3>4. \A x \in DOMAIN proc'.saw \ proc'.todo : x \in Present' /\ tree'[x] = proc'.saw[x]
      BY <1>3, <1>4, <1>own, <3>1, <3>2 DEF Present
    <3> QED
      BY <3>3, <3>4
  <2>5. /\ proc'.step \in {"rewrite", "failed"}
        /\ proc'.step = "rewrite" => proc.todo # {z}
    BY <1>on
  <2> QED
    BY <2>2, <2>3, <2>4, <2>5 DEF Untouched, At, Early
<1>11. Temporary'
  BY <1>1, <1>2, <1>3, RewriteEffect, <1>4 DEF Attributed, Temporary, Rewrite, At, Is,
     Kept, Marked, Advances, With, Trying, RollingBack
<1> QED BY <1>5, <1>6, <1>7, <1>8, <1>9, <1>10, <1>11 DEF ArtifactInv

LEMMA KillKeeps ==
  ASSUME ArtifactInv, Kill
  PROVE  ArtifactInv'
<1>1. /\ ArtifactTypes /\ Attributed /\ Snapshots /\ Reading /\ Restoring /\ Untouched /\ Temporary
      /\ Proc(proc) /\ Present \subseteq Paths
  BY DEF ArtifactInv, ArtifactTypes, Present, Tree
<1>4. ArtifactTypes'
  <2>1. (strays \subseteq Temporaries \cup Foreign)'
    <3>1. (At("stage") \/ At("rewrite")) => Min(proc.todo) \in Paths
      <4>1. (At("stage") \/ At("rewrite")) => proc.todo # {} /\ proc.todo \subseteq Paths
        BY <1>1 DEF Attributed, ArtifactTypes, At, Tree, Loaded, AfterRead, Trying,
           RestoreOnly, Is
      <4> QED
        BY <4>1, MinIn, PathsAreNumbers
    <3> QED
      BY <1>1, <3>1 DEF Kill, ArtifactTypes, Temporaries
  <2> QED
    BY <1>1, KillEffect, <2>1 DEF ArtifactTypes, Attributed, At, Is, Kept, Marked, Kill,
       Running, Ended, Steps, Trying, RollingBack, Commands, Present
<1>5. Attributed'
  BY <1>1, KillEffect DEF Attributed, Kill, At, Is, Kept, Marked, Running, Ended,
     RestoreOnly, Before, AfterRead, Loaded, Trying, RollingBack, Present, Stale
<1>6. Snapshots'
  BY <1>1, KillEffect DEF Attributed, Snapshots, Kill, At, Is, Kept, Marked, Running,
     Ended, Stood, Present, AfterRead, Loaded, RestoreOnly, Trying, RollingBack
<1>7. Reading'
  BY <1>1, KillEffect DEF Attributed, Reading, Kill, At, Is, Kept, Marked, Running, Ended,
     Present, RestoreOnly, AfterRead, Loaded, Trying, RollingBack
<1>8. Restoring'
  BY <1>1, KillEffect DEF Attributed, Restoring, Kill, At, Is, Kept, Marked, Running,
     Ended, Early, Trying, RollingBack, Present, AfterRead
<1>9. Untouched'
  BY <1>1, KillEffect DEF Attributed, Restoring, Untouched, Kill, At, Is, Kept, Marked,
     Running, Ended, Early, AfterRead, Trying, RollingBack, Present, Stale
<1>10. Temporary'
  BY <1>1, KillEffect DEF Attributed, Temporary, Kill, At, Is, Kept, Marked, Running,
     Ended, Trying, RollingBack
<1> QED BY <1>4, <1>5, <1>6, <1>7, <1>8, <1>9, <1>10 DEF ArtifactInv

LEMMA EditFileKeeps ==
  ASSUME ArtifactInv, NEW z \in Paths, tree' = With(z, Junk) \/ tree' = Without(z),
         Proc(proc'), proc'.step = proc.step, proc'.todo = proc.todo,
         proc'.cmd = proc.cmd, proc'.paths = proc.paths, proc'.saw = proc.saw,
         proc'.moment = proc.moment, proc'.torn = proc.torn,
         proc'.committed = proc.committed, proc'.edited = TRUE,
         proc'.same = proc.same \ {z}, proc'.ours = proc.ours \ {z},
         proc'.gone = proc.gone \ {z}, edits' \in 0..MaxEdits,
         UNCHANGED <<strays, base, archive, killed>>
  PROVE  ArtifactInv'
<1>1. /\ ArtifactTypes /\ Attributed /\ Snapshots /\ Reading /\ Restoring /\ Untouched /\ Temporary
      /\ Proc(proc) /\ Present \subseteq Paths
  BY DEF ArtifactInv, ArtifactTypes, Present, Tree
<1>4. /\ Tree(tree')
      /\ \A y \in Present : y # z => y \in DOMAIN tree' /\ tree'[y] = tree[y]
      /\ \/ DOMAIN tree' = Present \ {z}
         \/ DOMAIN tree' = Present \cup {z} /\ tree'[z] = Junk
  <2>1. Tree(tree) /\ z \in Paths
    BY <1>1 DEF ArtifactTypes
  <2>2. CASE tree' = With(z, Junk)
    <3>1. Tree(With(z, Junk))
      BY <2>1, WithOK
    <3>2. DOMAIN With(z, Junk) = Present \cup {z}
      BY <2>1, WithOK
    <3>3. With(z, Junk)[z] = Junk
      BY <2>1, WithOK
    <3>4. \A y \in Present : y # z => With(z, Junk)[y] = tree[y]
      BY DEF With, Put, Present
    <3>5. \A y \in Present : y # z => y \in DOMAIN tree' /\ tree'[y] = tree[y]
      BY <2>2, <3>2, <3>4
    <3> QED
      BY <2>2, <3>1, <3>2, <3>3, <3>5
  <2>3. CASE tree' = Without(z)
    <3>1. Tree(Without(z))
      BY <2>1, WithoutOK
    <3>2. DOMAIN Without(z) = Present \ {z}
      BY <2>1, WithoutOK
    <3>3. \A y \in Present : y # z => Without(z)[y] = tree[y]
      BY <2>1, WithoutOK
    <3>4. \A y \in Present : y # z => y \in DOMAIN tree' /\ tree'[y] = tree[y]
      BY <2>3, <3>2, <3>3
    <3> QED
      BY <2>3, <3>1, <3>2, <3>4
  <2> QED
    BY <2>2, <2>3
<1>5. ArtifactTypes'
  BY <1>1, <1>4 DEF ArtifactTypes, Attributed, At, Is, Kept, Marked, Steps, Ended, Trying,
     RollingBack, Commands, Present
<1>6. Attributed'
  BY <1>1, <1>4 DEF Attributed, At, Is, Kept, Marked, RestoreOnly, Before, AfterRead,
     Loaded, Trying, RollingBack, Present, Stale
<1>7. Snapshots'
  BY <1>1, <1>4 DEF Attributed, Snapshots, At, Is, Kept, Marked, Stood, Present, AfterRead,
     Loaded, RestoreOnly, Trying, RollingBack
<1>8. Reading'
  BY <1>1, <1>4 DEF Attributed, Reading, At, Is, Kept, Marked, Present, RestoreOnly,
     AfterRead, Loaded, Trying, RollingBack
<1>9. Restoring'
  BY <1>1, <1>4 DEF Attributed, Restoring, At, Is, Kept, Marked, Early, Trying,
     RollingBack, Present, AfterRead
<1>10. Untouched'
  BY <1>1, <1>4 DEF Attributed, Restoring, Untouched, At, Is, Kept, Marked, Early,
     AfterRead, Trying, RollingBack, Present, Stale
<1>11. Temporary'
  BY <1>1, <1>4 DEF Attributed, Temporary, At, Is, Kept, Marked, Trying, RollingBack
<1> QED BY <1>5, <1>6, <1>7, <1>8, <1>9, <1>10, <1>11 DEF ArtifactInv

LEMMA EditStrayKeeps ==
  ASSUME ArtifactInv, NEW s \in Foreign, strays' = strays \cup {s}, Marked(proc', proc),
         Proc(proc'), proc'.step = proc.step, proc'.todo = proc.todo,
         proc'.cmd = proc.cmd, proc'.paths = proc.paths, proc'.saw = proc.saw,
         proc'.moment = proc.moment, proc'.torn = proc.torn, proc'.edited = TRUE,
         edits' \in 0..MaxEdits, UNCHANGED <<tree, base, archive, killed>>
  PROVE  ArtifactInv'
<1>1. /\ ArtifactTypes /\ Attributed /\ Snapshots /\ Reading /\ Restoring /\ Untouched /\ Temporary
      /\ Proc(proc) /\ Present \subseteq Paths
  BY DEF ArtifactInv, ArtifactTypes, Present, Tree
<1>4. ArtifactTypes'
  BY <1>1 DEF ArtifactTypes, Attributed, At, Is, Kept, Marked, Steps, Ended, Trying,
     RollingBack, Commands, Present
<1>5. Attributed'
  BY <1>1 DEF Attributed, At, Is, Kept, Marked, RestoreOnly, Before, AfterRead, Loaded,
     Trying, RollingBack, Present, Stale
<1>6. Snapshots'
  BY <1>1 DEF Attributed, Snapshots, At, Is, Kept, Marked, Stood, Present, AfterRead,
     Loaded, RestoreOnly, Trying, RollingBack
<1>7. Reading'
  BY <1>1 DEF Attributed, Reading, At, Is, Kept, Marked, Present, RestoreOnly, AfterRead,
     Loaded, Trying, RollingBack
<1>8. Restoring'
  BY <1>1 DEF Attributed, Restoring, At, Is, Kept, Marked, Early, Trying, RollingBack,
     Present, AfterRead
<1>9. Untouched'
  BY <1>1 DEF Attributed, Restoring, Untouched, At, Is, Kept, Marked, Early, AfterRead,
     Trying, RollingBack, Present, Stale
<1>10. Temporary'
  <2>1. s[1] = "foreign"
    BY DEF Foreign
  <2> QED
    BY <1>1, <2>1 DEF Temporary, At, Is, Marked
<1> QED BY <1>4, <1>5, <1>6, <1>7, <1>8, <1>9, <1>10 DEF ArtifactInv

LEMMA EditKeeps ==
  ASSUME ArtifactInv, Edit
  PROVE  ArtifactInv'
<1>1. Proc(proc) /\ edits' \in 0..MaxEdits /\ UNCHANGED <<base, archive, killed>>
  <2>1. edits \in 0..MaxEdits /\ Proc(proc) /\ edits < MaxEdits /\ edits' = edits + 1
    BY DEF ArtifactInv, ArtifactTypes, Edit
  <2>2. edits' \in 0..MaxEdits
    BY <2>1, ArtifactConstants
  <2> QED
    BY <2>1, <2>2 DEF Edit
<1>2. CASE \E z \in Paths :
             /\ tree' = With(z, Junk) \/ tree' = Without(z)
             /\ proc'.same = proc.same \ {z} /\ proc'.ours = proc.ours \ {z}
             /\ proc'.gone = proc.gone \ {z} /\ strays' = strays
  <2>1. PICK z \in Paths :
             /\ tree' = With(z, Junk) \/ tree' = Without(z)
             /\ proc'.same = proc.same \ {z} /\ proc'.ours = proc.ours \ {z}
             /\ proc'.gone = proc.gone \ {z} /\ strays' = strays
    BY <1>2
  <2> QED
    BY <1>1, <2>1, EditEffect, EditFileKeeps
<1>3. CASE /\ tree' = tree /\ Marked(proc', proc)
           /\ \E s \in Foreign : strays' = strays \cup {s}
  <2>1. PICK s \in Foreign : strays' = strays \cup {s}
    BY <1>3
  <2> QED
    BY <1>1, <1>3, <2>1, EditEffect, EditStrayKeeps
<1> QED
  BY <1>1, <1>2, <1>3, EditEffect

\* A command begins; a restore only in a fresh checkout.
LEMMA BeginKeeps ==
  ASSUME ArtifactInv, NEW cmd \in Commands, Begin(cmd), cmd = "restore" => At("idle")
  PROVE  ArtifactInv'
<1>1. /\ ArtifactTypes /\ Attributed /\ Snapshots /\ Reading /\ Restoring /\ Untouched /\ Temporary
      /\ Proc(proc)
  BY DEF ArtifactInv, ArtifactTypes
<1>2. /\ Proc(proc') /\ proc'.cmd = cmd /\ proc'.step = "state" /\ proc'.todo = {}
      /\ proc'.paths = {} /\ proc'.saw = NoFiles /\ proc'.same = {} /\ proc'.ours = {}
      /\ proc'.gone = {} /\ proc'.moment = tree /\ ~proc'.edited /\ ~proc'.committed
      /\ ~proc'.torn /\ UNCHANGED <<tree, strays, base, archive, killed, edits>>
  BY NewEffect DEF Begin
<1>3. ArtifactTypes'
  BY <1>1, <1>2, NoFilesOK DEF ArtifactTypes, Steps
<1>4. Attributed'
  BY <1>2, NoFilesOK DEF Attributed, At, Is, RestoreOnly, Before, AfterRead, Loaded, Trying,
     RollingBack
<1>5. Snapshots'
  BY <1>2, NoFilesOK DEF Snapshots, At, Is
<1>6. Reading'
  BY <1>2, NoFilesOK DEF Reading, At, Is, Present
<1>7. Restoring'
  BY <1>2, NoFilesOK DEF Restoring, At, Is, Present, Early, Trying, RollingBack
<1>8. Untouched'
  BY <1>2, NoFilesOK DEF Untouched, At, Is, Present, Early, AfterRead, Trying, RollingBack
<1>9. Temporary'
  BY <1>1, <1>2 DEF Temporary, At, Is
<1> QED
  BY <1>3, <1>4, <1>5, <1>6, <1>7, <1>8, <1>9 DEF ArtifactInv

\* A step of a command, an error, a kill, and a write by somebody else
LEMMA ArtifactKeeps ==
  ASSUME ArtifactInv, Command \/ Raise \/ Kill \/ Edit
  PROVE  ArtifactInv'
<1>1. CASE Command
  BY <1>1, CheckStateKeeps, LoadKeeps, CheckAgainKeeps, DiscoverKeeps, ReadKeeps, StageKeeps,
     CheckUnchangedKeeps, CheckStaleKeeps, UnlinkKeeps, ReplaceKeeps, RecheckKeeps,
     CompareKeeps, FinalKeeps, FinishKeeps, ClearKeeps, RewriteKeeps DEF Command
<1> QED
  BY <1>1, RaiseKeeps, KillKeeps, EditKeeps

LEMMA ArtifactStutters ==
  ASSUME ArtifactInv, UNCHANGED artifactVars
  PROVE  ArtifactInv'
<1>1. /\ tree' = tree /\ strays' = strays /\ base' = base /\ archive' = archive
      /\ proc' = proc /\ killed' = killed /\ edits' = edits
  BY DEF artifactVars
<1> QED
  BY <1>1 DEF ArtifactInv, ArtifactTypes, Attributed, Snapshots, Reading, Restoring, Untouched,
     Temporary, At, Is, Present, Stale, Stood

-----------------------------------------------------------------------------
\* What the invariant says when a command has ended
LEMMA ExactWhenDone ==
  ASSUME ArtifactInv
  PROVE  ArtifactExact
<1>1. /\ Tree(proc.saw)
      /\ At("done") => DOMAIN proc.saw = proc.paths
  BY DEF ArtifactInv, ArtifactTypes, Attributed, At, AfterRead
<1> DEFINE Together == DOMAIN proc.saw \subseteq DOMAIN proc.moment
                         /\ \A x \in DOMAIN proc.saw : proc.saw[x] = proc.moment[x]
<1>2. At("done") /\ ~Is("restore") => Together
  BY <1>1 DEF ArtifactInv, Snapshots, Stood, At
<1>3. Tree(proc.saw) /\ Together => proc.saw = Restrict(proc.moment, DOMAIN proc.saw)
  BY DEF Tree, Restrict
<1>4. Is("pack") /\ At("done") => archive.files = proc.saw
  BY DEF ArtifactInv, Snapshots
<1>5. ASSUME Is("verify"), At("done")
      PROVE  archive.base = base /\ archive.files = proc.saw
  <2>1. /\ archive.base = base /\ proc.paths = DOMAIN archive.files /\ archive # NoArchive
        /\ \A x \in DOMAIN proc.saw : proc.saw[x] = archive.files[x]
    BY <1>5 DEF ArtifactInv, Snapshots, Attributed, At, Is, Loaded, AfterRead
  <2>2. Tree(archive.files) /\ Tree(proc.saw)
    BY <2>1 DEF ArtifactInv, ArtifactTypes
  <2> QED
    BY <1>1, <1>5, <2>1, <2>2, SameTree
<1> QED
  BY <1>2, <1>3, <1>4, <1>5 DEF ArtifactExact, PackedTogether, VerifiedExact, ArtifactInv,
     ArtifactTypes, Is

LEMMA AllOrNothingHolds ==
  ASSUME ArtifactInv
  PROVE  AllOrNothing
<1>1. SUFFICES ASSUME Is("restore"), ~proc.torn
               PROVE  /\ At("done") /\ ~proc.edited => tree = archive.files
                      /\ At("failed") /\ proc.committed /\ ~proc.edited => tree = archive.files
                      /\ At("failed") /\ ~proc.committed =>
                           /\ proc.ours = {} /\ proc.gone = {}
                           /\ ~proc.edited => tree = proc.moment
                      /\ ~Running /\ ~killed => strays \cap Temporaries = {}
  BY DEF AllOrNothing
<1>2. At("failed") /\ ~proc.committed => proc.ours = {} /\ proc.gone = {}
  BY <1>1 DEF ArtifactInv, Restoring
<1>3. ~proc.edited =>
        /\ At("done") => tree = archive.files
        /\ At("failed") => tree = IF proc.committed THEN archive.files ELSE proc.moment
  BY <1>1 DEF ArtifactInv, Untouched, At
<1>4. ~Running /\ ~killed => strays \cap Temporaries = {}
  <2>1. ASSUME ~Running, ~killed, NEW s \in strays, s \in Temporaries
        PROVE  FALSE
    <3>1. s[1] # "foreign"
      BY <2>1 DEF Temporaries
    <3> QED
      BY <1>1, <2>1, <3>1 DEF ArtifactInv, Temporary, Running, Ended
  <2> QED
    BY <2>1
<1> QED
  BY <1>2, <1>3, <1>4

-----------------------------------------------------------------------------
\* The artifact implements FileTransfer.  What has been committed, edited or torn are truth
\* values; only a restore commits, and a rollback that has failed has ended the command.
FlagsOK ==
    /\ proc.edited \in BOOLEAN /\ proc.committed \in BOOLEAN
    /\ ~Is("restore") => ~proc.committed
    /\ proc.torn => At("failed")

LEMMA FreshFlags ==
  ASSUME NEW cmd, NEW step, NEW files,
         proc' = New(cmd, step) \/ proc' = [New(cmd, step) EXCEPT !.moment = files]
  PROVE  FlagsOK'
<1>1. Proc(New(cmd, step)) /\ New(cmd, step).edited = FALSE
      /\ New(cmd, step).committed = FALSE /\ New(cmd, step).torn = FALSE
  BY NewEffect DEF New
<1> DEFINE p == New(cmd, step)
<1> HIDE DEF p
<1>2. proc'.edited = FALSE /\ proc'.committed = FALSE /\ proc'.torn = FALSE
  <2>1. Proc(p) /\ p.edited = FALSE /\ p.committed = FALSE /\ p.torn = FALSE
    BY <1>1 DEF p
  <2>2. proc' = p \/ proc' = [p EXCEPT !.moment = files]
    BY DEF p
  <2> QED
    BY <2>1, <2>2 DEF Proc
<1> QED
  BY <1>2 DEF FlagsOK

LEMMA CommandFlags ==
  ASSUME ArtifactInv, FlagsOK, Command
  PROVE  FlagsOK'
<1>1. Proc(proc)
  BY DEF ArtifactInv, ArtifactTypes
<1>2. ~At("failed") /\ ~proc.torn
  BY DEF FlagsOK, At, Command, CheckState, Load, CheckAgain, Discover, Read, Stage,
         CheckUnchanged, CheckStale, Unlink, Replace, Recheck, Compare, Final, Finish, Clear,
         Rewrite
<1>3. CASE Compare
  <2>1. PICK x : x = Min(proc.todo)
    OBVIOUS
  <2>2. At("compare") /\ Is("restore")
    BY <1>3 DEF Compare, ArtifactInv, Attributed, RestoreOnly, At
  <2>3. /\ Kept(proc', proc) /\ proc'.committed = (proc.todo = {x})
    BY <1>1, <1>3, <2>1, CompareEffect
  <2> QED
    BY <1>2, <2>2, <2>3 DEF FlagsOK, Kept, Is
<1>4. CASE CheckState \/ Load \/ CheckAgain \/ Discover \/ CheckStale \/ Recheck \/ Final
           \/ Finish \/ Clear
  <2>1. /\ proc'.edited = proc.edited /\ proc'.committed = proc.committed
        /\ proc'.cmd = proc.cmd /\ proc'.torn = proc.torn
    BY <1>1, <1>4, CheckStateEffect, LoadEffect, CheckAgainEffect, DiscoverEffect,
       CheckStaleEffect, RecheckEffect, EndEffect, ClearEffect DEF Kept, Marked
  <2> QED
    BY <1>2, <2>1 DEF FlagsOK, Is
<1>5. CASE Read \/ Stage \/ CheckUnchanged \/ Unlink \/ Replace \/ Rewrite
  <2>1. PICK x, y : x = Min(proc.todo) /\ y = Max(proc.todo)
    OBVIOUS
  <2>2. /\ proc'.edited = proc.edited /\ proc'.committed = proc.committed
        /\ proc'.cmd = proc.cmd /\ proc'.torn = proc.torn
    BY <1>1, <1>5, <2>1, ReadEffect, StageEffect, CheckUnchangedEffect, UnlinkEffect,
       ReplaceEffect, RewriteEffect DEF Kept, Marked
  <2> QED
    BY <1>2, <2>2 DEF FlagsOK, Is
<1> QED
  BY <1>3, <1>4, <1>5 DEF Command

LEMMA BefallsFlags ==
  ASSUME ArtifactInv, FlagsOK, Raise \/ Kill \/ Edit
  PROVE  FlagsOK'
<1>1. Proc(proc)
  BY DEF ArtifactInv, ArtifactTypes
<1>2. CASE Raise
  <2>1. ~At("failed")
    BY <1>2 DEF Raise, Running, Ended, At
  <2> QED
    BY <1>1, <1>2, <2>1, RaiseEffect DEF FlagsOK, Marked, At, Is
<1>3. CASE Kill
  <2>1. ~At("failed")
    BY <1>3 DEF Kill, Running, Ended, At
  <2> QED
    BY <1>1, <1>3, <2>1, KillEffect DEF FlagsOK, Kept, Marked, Is
<1>4. CASE Edit
  BY <1>1, <1>4, EditEffect DEF FlagsOK, At, Is
<1> QED
  BY <1>2, <1>3, <1>4

\* Each step is a step of FileTransfer, or none.
Promised == [Transfer!TransferNext]_Transfer!transferVars

\* What FileTransfer sees of a running command, and of one that has ended
LEMMA Progress ==
  ASSUME FlagsOK
  PROVE  /\ At("idle") => Job = "idle" /\ ~Replaces
         /\ At("done") => Job = "done" /\ ~Replaces
         /\ At("failed") => Job = "failed" /\ ~Replaces
         /\ At("killed") => Job = "failed" /\ ~Replaces
         /\ Running => /\ Job = (IF proc.committed THEN "restored" ELSE proc.cmd)
                       /\ Spoilt = proc.edited
         /\ ~Replaces \/ proc.edited => Visible = tree
         /\ Replaces /\ ~proc.edited => Visible = proc.moment
  BY DEF Job, Visible, Replaces, Spoilt, Broken, Running, Ended, Trying, RollingBack, At, Is,
         FlagsOK

LEMMA ProgressPrimed ==
  ASSUME FlagsOK'
  PROVE  /\ proc'.step = "idle" => Job' = "idle" /\ Visible' = tree'
         /\ proc'.step = "done" => Job' = "done" /\ Visible' = tree' /\ Spoilt' = proc'.edited
         /\ proc'.step = "failed" => Job' = "failed" /\ Visible' = tree'
                                     /\ Spoilt' = (proc'.edited \/ proc'.torn)
         /\ proc'.step = "killed" => Job' = "failed" /\ Visible' = tree' /\ Spoilt' = TRUE
         /\ proc'.step \notin Ended =>
              /\ Job' = (IF proc'.committed THEN "restored" ELSE proc'.cmd)
              /\ Spoilt' = proc'.edited
         /\ ~(proc'.cmd = "restore" /\ proc'.step \in Trying \cup RollingBack) \/ proc'.edited
              => Visible' = tree'
         /\ proc'.cmd = "restore" /\ proc'.step \in Trying \cup RollingBack /\ ~proc'.edited
              => Visible' = proc'.moment
  BY DEF Job, Visible, Replaces, Spoilt, Broken, Running, Ended, Trying, RollingBack, At, Is,
         FlagsOK

\* The steps within a command are none of its ends, and a replacement is a part of one.
LEMMA StepNames ==
    /\ Trying \cap Ended = {} /\ RollingBack \cap Ended = {} /\ Trying \cap RollingBack = {}
    /\ Replaces => Running
  BY DEF Trying, RollingBack, Ended, Replaces, Running

\* A step within a command that neither looks, nor writes what can be seen
LEMMA QuietPromised ==
  ASSUME FlagsOK, FlagsOK', Running, proc'.step \notin Ended,
         proc'.cmd = proc.cmd, proc'.moment = proc.moment, proc'.edited = proc.edited,
         proc'.committed = proc.committed, archive' = archive, Seen' = Seen,
         \/ Is("restore") /\ ~proc.edited /\ Replaces /\ Replaces'
         \/ tree' = tree /\ (proc.edited \/ (Replaces' <=> Replaces) \/ tree = proc.moment)
  PROVE  Promised
<1>1. Job' = Job /\ Spoilt' = Spoilt /\ Stored' = Stored
  BY Progress, ProgressPrimed DEF Stored
<1>2. Visible' = Visible
  BY DEF Visible, Replaces
<1> QED
  BY <1>1, <1>2 DEF Promised, Transfer!transferVars

\* What is seen changes only with the reads.
LEMMA SeenStays ==
    /\ proc'.cmd = proc.cmd /\ proc'.moment = proc.moment /\ proc'.saw = proc.saw => Seen' = Seen
    /\ proc'.cmd = proc.cmd /\ Is("restore") => Seen' = Seen /\ Seen = NoFiles
  BY DEF Seen, Is

\* The checks before anything is read, and between the last check and the first write
LEMMA ChecksPromised ==
  ASSUME ArtifactInv, FlagsOK, FlagsOK',
         CheckState \/ Load \/ CheckAgain \/ Discover \/ CheckStale \/ Recheck
  PROVE  Promised
<1>1. Proc(proc)
  BY DEF ArtifactInv, ArtifactTypes
<1>2. /\ proc'.cmd = proc.cmd /\ proc'.moment = proc.moment /\ proc'.edited = proc.edited
      /\ proc'.committed = proc.committed /\ proc'.saw = proc.saw
  BY <1>1, CheckStateEffect, LoadEffect, CheckAgainEffect, DiscoverEffect, CheckStaleEffect,
     RecheckEffect DEF Kept, Marked
<1>3. tree' = tree /\ archive' = archive
  BY DEF CheckState, Load, CheckAgain, Discover, CheckStale, Recheck
<1>4. /\ Running /\ proc'.step \notin Ended
      /\ \/ proc.step \notin Trying \cup RollingBack /\ proc'.step \notin Trying \cup RollingBack
         \/ proc.step \in Trying \cup RollingBack /\ proc'.step \in Trying \cup RollingBack
  <2>1. \/ At("state") /\ proc'.step \in {"read", "load"}
        \/ At("load") /\ proc'.step \in {"again", "read"}
        \/ At("again") /\ proc'.step = "discover"
        \/ At("discover") /\ proc'.step = "read"
        \/ At("stale") /\ proc'.step = "unlink"
        \/ At("recheck") /\ proc'.step = "compare"
    BY <1>1, CheckStateEffect, LoadEffect, CheckAgainEffect, DiscoverEffect, CheckStaleEffect,
       RecheckEffect DEF CheckState, Load, CheckAgain, Discover, CheckStale, Recheck
  <2> QED
    BY <2>1 DEF Trying, RollingBack, Ended, Running, At
<1>5. Replaces' <=> Replaces
  BY <1>2, <1>4 DEF Replaces, Is
<1> QED
  BY <1>2, <1>3, <1>4, <1>5, SeenStays, QuietPromised

\* Reading looks at the checkout, unless it is for a restore.
LEMMA ReadPromised ==
  ASSUME ArtifactInv, FlagsOK, FlagsOK', Read
  PROVE  Promised
<1> DEFINE x == Min(proc.todo)
<1>1. Proc(proc) /\ Tree(tree)
  BY DEF ArtifactInv, ArtifactTypes
<1>2. /\ proc'.cmd = proc.cmd /\ proc'.edited = proc.edited /\ proc'.committed = proc.committed
      /\ proc'.saw = Put(proc.saw, x, tree[x])
      /\ proc'.moment = (IF Is("restore") THEN proc.moment ELSE tree)
      /\ proc'.step \in {"read", "stage", "unchanged"}
      /\ tree' = tree /\ archive' = archive /\ At("read") /\ x \in Present
  BY <1>1, ReadEffect DEF Read, Advances, At
<1>3. Running /\ proc'.step \notin Ended /\ ~Replaces
  BY <1>2 DEF Running, Ended, Replaces, Trying, RollingBack, At
<1>4. CASE Is("restore")
  <2>1. proc.edited \/ tree = proc.moment
    BY <1>2, <1>4 DEF ArtifactInv, Untouched, Early, FlagsOK, At
  <2> QED
    BY <1>2, <1>3, <1>4, <2>1, SeenStays, QuietPromised
<1>5. CASE ~Is("restore")
  <2>1. /\ Job = proc.cmd /\ Job' = Job /\ Spoilt' = Spoilt /\ proc.cmd \in {"pack", "verify"}
        /\ Visible = tree /\ Visible' = tree
    BY <1>2, <1>3, <1>5, Progress, ProgressPrimed
       DEF FlagsOK, ArtifactInv, ArtifactTypes, Commands, Is
  <2>2. Transfer!IsRestriction(Seen', Visible)
    <3> DEFINE D == DOMAIN proc'.saw \cap DOMAIN tree
    <3>1. Seen' = Restrict(tree, D)
      BY <1>2, <1>5 DEF Seen, Is
    <3>2. DOMAIN Restrict(tree, D) = D /\ \A y \in D : Restrict(tree, D)[y] = tree[y]
      BY RestrictOK
    <3> QED
      BY <2>1, <3>1, <3>2 DEF Transfer!IsRestriction
  <2>3. Stored' = Stored
    BY <1>2 DEF Stored
  <2> QED
    BY <2>1, <2>2, <2>3 DEF Promised, Transfer!TransferNext, Transfer!Look
<1> QED
  BY <1>4, <1>5

\* Staging, and looking at the files again
LEMMA StagePromised ==
  ASSUME ArtifactInv, FlagsOK, FlagsOK', Stage \/ CheckUnchanged
  PROVE  Promised
<1> DEFINE x == Min(proc.todo)
<1>1. Proc(proc)
  BY DEF ArtifactInv, ArtifactTypes
<1>2. /\ proc'.cmd = proc.cmd /\ proc'.moment = proc.moment /\ proc'.edited = proc.edited
      /\ proc'.committed = proc.committed /\ proc'.saw = proc.saw
  BY <1>1, StageEffect, CheckUnchangedEffect DEF Kept, Marked
<1>3. tree' = tree /\ archive' = archive /\ proc.step \in {"stage", "unchanged"}
  BY DEF Stage, CheckUnchanged, At
<1>4. /\ proc'.step \in {"stage", "unchanged", "replace", "stale", "finish"}
      /\ Is("restore") => proc'.step # "finish"
  <2>1. CASE Stage
    <3>1. At("stage") /\ Advances(x, "unchanged", proc.paths)
      BY <1>1, <2>1, StageEffect DEF Stage
    <3> QED
      BY <3>1 DEF Advances, At
  <2>2. CASE CheckUnchanged
    <3>1. /\ At("unchanged")
          /\ Is("restore") /\ proc.todo = {x} => AfterUnchanged(proc', Stale)
          /\ ~(Is("restore") /\ proc.todo = {x}) => Advances(x, "finish", {})
      BY <1>1, <2>2, CheckUnchangedEffect DEF CheckUnchanged
    <3> QED
      BY <3>1 DEF Advances, AfterUnchanged, At
  <2> QED
    BY <2>1, <2>2
<1>5. Running /\ proc'.step \notin Ended
  BY <1>3, <1>4 DEF Running, Ended
<1>6. Replaces' <=> Replaces
  BY <1>2, <1>3, <1>4 DEF Replaces, Trying, RollingBack, Is
<1> QED
  BY <1>2, <1>3, <1>5, <1>6, SeenStays, QuietPromised

\* Files are removed, replaced and put back out of sight, or in a checkout in which others
\* write.
LEMMA WritesPromised ==
  ASSUME ArtifactInv, FlagsOK, FlagsOK', proc.step \in Trying \cup RollingBack,
         proc'.step \in Trying \cup RollingBack, Is("restore"), Kept(proc', proc),
         proc'.committed = proc.committed, archive' = archive
  PROVE  Promised
<1>1. /\ Running /\ proc'.step \notin Ended /\ proc'.cmd = proc.cmd /\ Replaces /\ Replaces'
      /\ proc'.moment = proc.moment /\ proc'.edited = proc.edited /\ Seen' = Seen
  BY StepNames, SeenStays DEF Running, Kept, Replaces, Is
<1>2. CASE ~proc.edited
  BY <1>1, <1>2, QuietPromised
<1>3. CASE proc.edited
  <2>1. ~proc.committed
    BY <1>1 DEF ArtifactInv, Restoring, FlagsOK, Running, Ended, At
  <2>2. /\ Job = "restore" /\ Job' = Job /\ Spoilt /\ Spoilt' = Spoilt /\ Stored' = Stored
    BY <1>1, <1>3, <2>1, Progress, ProgressPrimed DEF Stored, Is
  <2> QED
    BY <1>1, <2>2 DEF Promised, Transfer!TransferNext, Transfer!Struggle
<1> QED
  BY <1>2, <1>3

LEMMA WritePromised ==
  ASSUME ArtifactInv, FlagsOK, FlagsOK', Unlink \/ Replace \/ Clear
  PROVE  Promised
<1>1. PICK x, y : x = Min(proc.todo) /\ y = Max(proc.todo)
  OBVIOUS
<1>2. Proc(proc) /\ archive' = archive
  BY DEF ArtifactInv, ArtifactTypes, Unlink, Replace, Clear
<1>3. CASE Unlink
  <2>1. At("unlink") /\ Kept(proc', proc) /\ proc'.committed = proc.committed
        /\ AfterUnchanged(proc', proc.todo \ {y})
    BY <1>1, <1>2, <1>3, UnlinkEffect DEF Unlink
  <2>2. proc'.step \in {"replace", "stale"} /\ Is("restore")
    BY <2>1 DEF AfterUnchanged, ArtifactInv, Attributed, RestoreOnly, At
  <2> QED
    BY <1>2, <2>1, <2>2, WritesPromised DEF Trying, At
<1>4. CASE Replace
  <2>1. At("replace") /\ Kept(proc', proc) /\ proc'.committed = proc.committed
        /\ Advances(x, "recheck", {})
    BY <1>1, <1>2, <1>4, ReplaceEffect DEF Replace
  <2>2. proc'.step \in {"replace", "recheck"} /\ Is("restore")
    BY <2>1 DEF Advances, ArtifactInv, Attributed, RestoreOnly, At
  <2> QED
    BY <1>2, <2>1, <2>2, WritesPromised DEF Trying, At
<1>5. CASE Clear
  <2>1. At("clear") /\ Kept(proc', proc) /\ proc'.committed = proc.committed
        /\ proc'.step \in {"clear", "rewrite"}
    BY <1>2, <1>5, ClearEffect DEF Clear, At
  <2>2. Is("restore")
    BY <2>1 DEF ArtifactInv, Attributed, RestoreOnly, RollingBack, At
  <2> QED
    BY <1>2, <2>1, <2>2, WritesPromised DEF RollingBack, At
<1> QED
  BY <1>3, <1>4, <1>5

\* The last comparison makes the restored files visible, all at once.
LEMMA ComparePromised ==
  ASSUME ArtifactInv, ArtifactInv', FlagsOK, FlagsOK', Compare
  PROVE  Promised
<1> DEFINE x == Min(proc.todo)
<1>1. Proc(proc)
  BY DEF ArtifactInv, ArtifactTypes
<1>2. /\ At("compare") /\ tree' = tree /\ archive' = archive /\ Kept(proc', proc)
      /\ proc'.committed = (proc.todo = {x}) /\ Advances(x, "final", {})
  BY <1>1, CompareEffect DEF Compare
<1>3. Is("restore") /\ ~proc.committed /\ Running /\ Replaces /\ archive # NoArchive /\ ~proc.torn
  BY <1>2 DEF ArtifactInv, Attributed, Restoring, FlagsOK, Running, Ended, Replaces, RestoreOnly,
     Loaded, AfterRead, Trying, At, Is
<1>4. Seen' = Seen /\ Stored' = Stored
  BY <1>2, SeenStays DEF Kept, Stored
<1>5. CASE proc.todo # {x}
  <2>1. proc'.step = "compare" /\ proc'.committed = proc.committed
    BY <1>2, <1>3, <1>5 DEF Advances, At, FlagsOK
  <2> QED
    BY <1>2, <1>3, <2>1, WritesPromised DEF Trying, At
<1>6. CASE proc.todo = {x}
  <2>1. proc'.step = "final" /\ proc'.committed /\ proc'.cmd = proc.cmd
        /\ proc'.edited = proc.edited
    BY <1>2, <1>6 DEF Advances, Kept
  <2>2. /\ Job = "restore" /\ Job' = "restored" /\ Spoilt = proc.edited /\ Spoilt' = proc.edited
        /\ Visible' = tree
    BY <1>2, <1>3, <2>1, Progress, ProgressPrimed DEF Ended, Trying, RollingBack, Is
  <2>3. Stored = archive.files /\ Stored # NoFiles
    <3>1. DOMAIN archive.files # {}
      BY <1>3 DEF ArtifactInv, ArtifactTypes
    <3> QED
      BY <1>3, <3>1, NoFilesOK DEF Stored
  <2>4. Visible' = IF Spoilt THEN Visible ELSE Stored
    <3>1. CASE proc.edited
      BY <2>2, <3>1, Progress
    <3>2. CASE ~proc.edited
      BY <1>2, <1>3, <2>2, <2>3, <3>2 DEF ArtifactInv, Untouched, At
    <3> QED
      BY <3>1, <3>2
  <2> QED
    BY <1>4, <2>2, <2>3, <2>4 DEF Promised, Transfer!TransferNext, Transfer!Restore
<1> QED
  BY <1>5, <1>6

\* The check after that ends a restore, and can no longer undo it.
LEMMA FinalPromised ==
  ASSUME ArtifactInv, FlagsOK, FlagsOK', Final
  PROVE  Promised
<1>1. Proc(proc)
  BY DEF ArtifactInv, ArtifactTypes
<1>2. /\ At("final") /\ tree' = tree /\ archive' = archive /\ Kept(proc', proc)
      /\ Marked(proc', proc) /\ proc'.step = "done"
  BY <1>1, EndEffect DEF Final
<1>3. Is("restore") /\ ~proc.torn /\ Running /\ ~Replaces
  BY <1>2 DEF ArtifactInv, Attributed, FlagsOK, Running, Ended, Replaces, RestoreOnly, Trying,
     RollingBack, At
<1>4. proc.committed
  BY <1>2, <1>3 DEF ArtifactInv, Restoring, At
<1>5. Job = "restored" /\ Job' = "done" /\ Visible' = Visible /\ Spoilt' = Spoilt
  BY <1>2, <1>3, <1>4, Progress, ProgressPrimed DEF Kept
<1>6. Seen' = Seen /\ Stored' = Stored
  BY <1>2, SeenStays DEF Kept, Stored
<1> QED
  BY <1>5, <1>6 DEF Promised, Transfer!TransferNext, Transfer!Complete

\* What was read is what was there at the moment of the last read.
LEMMA SawIsSeen ==
  ASSUME ArtifactInv, At("finish"), ~Is("restore")
  PROVE  Seen = proc.saw /\ Index \in DOMAIN Seen
<1>1. /\ Tree(proc.saw) /\ DOMAIN proc.saw = proc.paths /\ Index \in proc.paths
      /\ \A x \in proc.paths : x \in DOMAIN proc.moment /\ proc.moment[x] = proc.saw[x]
  BY DEF ArtifactInv, ArtifactTypes, Attributed, Snapshots, Stood, AfterRead, At
<1>2. DOMAIN proc.saw \cap DOMAIN proc.moment = DOMAIN proc.saw
  BY <1>1
<1>3. Seen = Restrict(proc.moment, DOMAIN proc.saw)
  BY <1>2 DEF Seen
<1>4. proc.saw = Restrict(proc.moment, DOMAIN proc.saw)
  BY <1>1 DEF Tree, Restrict
<1> QED
  BY <1>1, <1>3, <1>4

LEMMA FinishPromised ==
  ASSUME ArtifactInv, FlagsOK, FlagsOK', Finish
  PROVE  Promised
<1>1. Proc(proc)
  BY DEF ArtifactInv, ArtifactTypes
<1>2. /\ At("finish") /\ tree' = tree /\ Kept(proc', proc) /\ Marked(proc', proc)
      /\ proc'.step = "done"
  BY <1>1, EndEffect DEF Finish
<1>3. /\ ~Is("restore") /\ proc.cmd \in {"pack", "verify"} /\ Running /\ ~Replaces
      /\ ~proc.torn /\ ~proc.committed
  BY <1>2 DEF ArtifactInv, ArtifactTypes, Commands, Attributed, FlagsOK, Running, Ended,
     Replaces, At, Is
<1>4. Job = proc.cmd /\ Job' = "done" /\ Visible' = Visible /\ Spoilt' = Spoilt
  BY <1>2, <1>3, Progress, ProgressPrimed DEF Kept
<1>5. Seen' = Seen
  BY <1>2, SeenStays DEF Kept
<1>6. Seen = proc.saw /\ Index \in DOMAIN Seen
  BY <1>2, <1>3, SawIsSeen
<1>7. CASE Is("pack")
  <2>1. archive' = [base |-> base, files |-> proc.saw]
    BY <1>7 DEF Finish
  <2>2. archive' # NoArchive /\ archive'.files = proc.saw
    <3>1. "files" \in DOMAIN [base |-> base, files |-> proc.saw] /\ "files" \notin DOMAIN NoArchive
      BY DEF NoArchive
    <3> QED
      BY <2>1, <3>1
  <2>3. Stored' = Seen
    BY <1>6, <2>2 DEF Stored
  <2> QED
    BY <1>4, <1>5, <1>6, <1>7, <2>3 DEF Promised, Transfer!TransferNext, Transfer!Pack, Is
<1>8. CASE Is("verify")
  <2>1. archive' = archive /\ archive # NoArchive
    BY <1>2, <1>8 DEF Finish, ArtifactInv, Attributed, Loaded, AfterRead, At, Is
  <2>2. proc.saw = archive.files
    <3>1. /\ Tree(archive.files) /\ Tree(proc.saw) /\ DOMAIN proc.saw = proc.paths
          /\ proc.paths = DOMAIN archive.files
          /\ \A y \in DOMAIN proc.saw : proc.saw[y] = archive.files[y]
      BY <1>2, <1>8, <2>1
         DEF ArtifactInv, ArtifactTypes, Attributed, Snapshots, AfterRead, At, Is
    <3> QED
      BY <3>1, SameTree
  <2>3. Stored = Seen /\ Stored' = Stored
    BY <1>6, <2>1, <2>2 DEF Stored
  <2> QED
    BY <1>4, <1>5, <1>8, <2>3 DEF Promised, Transfer!TransferNext, Transfer!Verify, Is
<1> QED
  BY <1>3, <1>7, <1>8 DEF Is

\* Files are put back one after the other, and then all are as they were found.
LEMMA RewritePromised ==
  ASSUME ArtifactInv, ArtifactInv', FlagsOK, FlagsOK', Rewrite
  PROVE  Promised
<1> DEFINE x == Min(proc.todo)
<1>1. Proc(proc)
  BY DEF ArtifactInv, ArtifactTypes
<1>2. /\ At("rewrite") /\ archive' = archive /\ Kept(proc', proc)
      /\ proc'.committed = proc.committed /\ Advances(x, "failed", {})
  BY <1>1, RewriteEffect DEF Rewrite
<1>3. Is("restore") /\ ~proc.torn /\ Running /\ Replaces
  BY <1>2 DEF ArtifactInv, Attributed, FlagsOK, Running, Ended, Replaces, RestoreOnly, Trying,
     RollingBack, At, Is
<1>4. ~proc.committed
  BY <1>2, <1>3 DEF ArtifactInv, Restoring, RollingBack, At
<1>5. CASE proc.todo # {x}
  <2>1. proc'.step = "rewrite"
    BY <1>2, <1>5 DEF Advances, At
  <2> QED
    BY <1>2, <1>3, <2>1, WritesPromised DEF RollingBack, At
<1>6. CASE proc.todo = {x}
  <2>1. proc'.step = "failed"
    BY <1>2, <1>6 DEF Advances
  <2>2. /\ Job = "restore" /\ Job' = "failed" /\ Visible' = tree'
        /\ Spoilt = proc.edited /\ Spoilt' = proc.edited
    BY <1>2, <1>3, <1>4, <2>1, Progress, ProgressPrimed DEF Kept, Is, FlagsOK
  <2>3. Seen' = Seen /\ Stored' = Stored
    BY <1>2, SeenStays DEF Kept, Stored
  <2>4. CASE proc.edited
    BY <2>2, <2>3, <2>4
       DEF Promised, Transfer!TransferNext, Transfer!Break, Transfer!Over, FlagsOK
  <2>5. CASE ~proc.edited
    <3>1. tree' = proc'.moment
      BY <1>2, <1>3, <1>4, <2>1, <2>5 DEF ArtifactInv, Untouched, Kept, At, Is
    <3>2. Visible' = Visible
      BY <1>2, <1>3, <2>2, <2>5, <3>1, Progress DEF Kept
    <3> QED
      BY <2>2, <2>3, <3>2 DEF Promised, Transfer!TransferNext, Transfer!Fail, Transfer!Over
  <2> QED
    BY <2>4, <2>5
<1> QED
  BY <1>5, <1>6

\* An error begins the rollback, breaks it off, or ends a command that has nothing to undo.
LEMMA RaisePromised ==
  ASSUME ArtifactInv, FlagsOK, FlagsOK', Raise
  PROVE  Promised
<1>1. Proc(proc) /\ proc.cmd \in {"pack", "restore", "verify"}
  BY DEF ArtifactInv, ArtifactTypes, Commands
<1>2. /\ Running /\ Marked(proc', proc) /\ proc'.cmd = proc.cmd /\ proc'.saw = proc.saw
      /\ proc'.moment = proc.moment /\ proc'.edited = proc.edited
      /\ tree' = tree /\ archive' = archive
  BY <1>1, RaiseEffect DEF Raise
<1>3. Seen' = Seen /\ Stored' = Stored /\ ~proc.torn
  BY <1>2, SeenStays DEF Stored, FlagsOK, Running, Ended, At
<1>4. CASE Is("restore") /\ proc.step \in Trying /\ proc'.step = "clear"
  <2>1. proc'.step \notin Ended /\ Replaces /\ Replaces'
    BY <1>2, <1>4 DEF Replaces, RollingBack, Ended, Is
  <2> QED
    BY <1>2, <1>3, <2>1, QuietPromised DEF Marked
<1>5. CASE proc.step \in RollingBack /\ proc'.step = "failed" /\ proc'.torn = TRUE
  <2>1. Is("restore")
    BY <1>5 DEF ArtifactInv, Attributed, RestoreOnly
  <2>2. ~proc.committed
    BY <1>3, <1>5, <2>1 DEF ArtifactInv, Restoring
  <2>3. Job = "restore" /\ Job' = "failed" /\ Spoilt' = TRUE
    BY <1>2, <1>5, <2>1, <2>2, Progress, ProgressPrimed DEF Is, FlagsOK
  <2> QED
    BY <1>3, <2>3 DEF Promised, Transfer!TransferNext, Transfer!Break, Transfer!Over
<1>6. CASE /\ ~(Is("restore") /\ proc.step \in Trying) /\ proc.step \notin RollingBack
           /\ proc'.step = "failed" /\ proc'.torn = proc.torn
  <2>1. ~Replaces
    BY <1>6 DEF Replaces
  <2>2. /\ Job = (IF proc.committed THEN "restored" ELSE proc.cmd) /\ Job' = "failed"
        /\ Visible' = Visible /\ Spoilt = proc.edited /\ Spoilt' = proc.edited
    BY <1>2, <1>3, <1>6, <2>1, Progress, ProgressPrimed DEF FlagsOK
  <2>3. ~Transfer!Over
    BY <1>1, <2>2 DEF Transfer!Over
  <2> QED
    BY <1>3, <2>2, <2>3 DEF Promised, Transfer!TransferNext, Transfer!Fail
<1> QED
  BY <1>1, <1>4, <1>5, <1>6, RaiseEffect

\* A kill leaves what a restore has done so far in sight.
LEMMA KillPromised ==
  ASSUME ArtifactInv, FlagsOK, FlagsOK', Kill
  PROVE  Promised
<1>1. Proc(proc) /\ proc.cmd \in {"pack", "restore", "verify"}
  BY DEF ArtifactInv, ArtifactTypes, Commands
<1>2. /\ Running /\ Kept(proc', proc) /\ proc'.step = "killed" /\ tree' = tree
      /\ archive' = archive
  BY <1>1, KillEffect DEF Kill
<1>3. Seen' = Seen /\ Stored' = Stored /\ ~proc.torn
  BY <1>2, SeenStays DEF Stored, FlagsOK, Running, Ended, At, Kept
<1>4. /\ Job = (IF proc.committed THEN "restored" ELSE proc.cmd) /\ Job' = "failed"
      /\ Visible' = tree /\ Spoilt' = TRUE
  BY <1>2, Progress, ProgressPrimed
<1>5. ~Transfer!Over
  BY <1>1, <1>4 DEF Transfer!Over
<1>6. Job = "restore" \/ Visible' = Visible
  <2>1. CASE Replaces
    <3>1. Is("restore") /\ ~proc.committed
      BY <1>3, <2>1 DEF ArtifactInv, Restoring, Replaces
    <3> QED
      BY <1>4, <3>1 DEF Is
  <2>2. CASE ~Replaces
    BY <1>4, <2>2, Progress
  <2> QED
    BY <2>1, <2>2
<1> QED
  BY <1>3, <1>4, <1>5, <1>6 DEF Promised, Transfer!TransferNext, Transfer!Break

\* Others write or remove one file.
LEMMA EditPromised ==
  ASSUME ArtifactInv, FlagsOK, FlagsOK', Edit
  PROVE  Promised
<1>1. Proc(proc) /\ Tree(tree)
  BY DEF ArtifactInv, ArtifactTypes
<1>2. /\ proc'.step = proc.step /\ proc'.cmd = proc.cmd /\ proc'.saw = proc.saw
      /\ proc'.moment = proc.moment /\ proc'.committed = proc.committed /\ proc'.edited = TRUE
      /\ archive' = archive
      /\ \/ \E x \in Paths : tree' = With(x, Junk) \/ tree' = Without(x)
         \/ tree' = tree
  BY <1>1, EditEffect DEF Edit
<1>3. Seen' = Seen /\ Stored' = Stored
  BY <1>2, SeenStays DEF Stored
<1>4. Job' = Job /\ Spoilt' = TRUE /\ Visible' = tree'
  BY <1>2, ProgressPrimed DEF Job, Running, Spoilt, At
<1>5. CASE Replaces
  <2>1. Is("restore") /\ Running /\ ~proc.torn
    BY <1>5, StepNames DEF Replaces, FlagsOK, Running, Ended, At
  <2>2. ~proc.committed
    BY <1>5, <2>1 DEF ArtifactInv, Restoring, Replaces
  <2>3. Job = "restore"
    BY <2>1, <2>2, Progress DEF Is
  <2> QED
    BY <1>3, <1>4, <2>3 DEF Promised, Transfer!TransferNext, Transfer!Meddle
<1>6. CASE ~Replaces
  <2>1. Visible = tree
    BY <1>6, Progress
  <2>2. \E p \in Paths : \A q \in Paths \ {p} :
          /\ q \in DOMAIN tree' <=> q \in DOMAIN tree
          /\ q \in DOMAIN tree => tree'[q] = tree[q]
    <3>1. CASE tree' = tree
      BY <3>1, PathsAreNumbers
    <3>2. CASE \E x \in Paths : tree' = With(x, Junk) \/ tree' = Without(x)
      <4>1. PICK x \in Paths : tree' = With(x, Junk) \/ tree' = Without(x)
        BY <3>2
      <4>2. \A q \in Paths \ {x} : /\ q \in DOMAIN tree' <=> q \in DOMAIN tree
                                   /\ q \in DOMAIN tree => tree'[q] = tree[q]
        <5>1. CASE tree' = With(x, Junk)
          <6>1. DOMAIN With(x, Junk) = Present \cup {x}
            BY <1>1, WithOK
          <6>2. \A y \in Present : y # x => With(x, Junk)[y] = tree[y]
            BY DEF With, Put, Present
          <6> QED
            BY <5>1, <6>1, <6>2 DEF Present
        <5>2. CASE tree' = Without(x)
          BY <1>1, <5>2, WithoutOK DEF Present
        <5> QED
          BY <4>1, <5>1, <5>2
      <4> QED
        BY <4>2
    <3> QED
      BY <1>2, <3>1, <3>2
  <2> QED
    BY <1>3, <1>4, <2>1, <2>2 DEF Promised, Transfer!TransferNext, Transfer!Meddle
<1> QED
  BY <1>5, <1>6

\* The sixteen steps of a command
LEMMA CommandPromised ==
  ASSUME ArtifactInv, ArtifactInv', FlagsOK, FlagsOK', Command
  PROVE  Promised
  BY ChecksPromised, ReadPromised, StagePromised, WritePromised, ComparePromised, FinalPromised,
     FinishPromised, RewritePromised DEF Command

\* A command begins, and has seen nothing.
LEMMA BeginPromised ==
  ASSUME ArtifactInv, FlagsOK, FlagsOK', NEW cmd \in Commands, Begin(cmd)
  PROVE  Promised
<1>1. /\ proc'.cmd = cmd /\ proc'.step = "state" /\ proc'.saw = NoFiles /\ ~proc'.edited
      /\ ~proc'.committed /\ tree' = tree /\ archive' = archive /\ ~Running
  BY NewEffect DEF Begin
<1>2. Job' = cmd /\ Spoilt' = FALSE /\ Visible' = tree
  BY <1>1, ProgressPrimed DEF Ended, Trying, RollingBack, FlagsOK
<1>3. Transfer!Over /\ Visible = tree
  <2>1. At("idle") \/ At("done") \/ At("failed") \/ At("killed")
    BY <1>1 DEF Running, Ended, At
  <2> QED
    BY <2>1, Progress DEF Transfer!Over
<1>4. Transfer!IsRestriction(Seen', Visible)
  <2>1. DOMAIN Seen' = {}
    <3>1. CASE proc'.cmd = "restore"
      BY <3>1, NoFilesOK DEF Seen, Is
    <3>2. CASE proc'.cmd # "restore"
      <4> DEFINE D == DOMAIN proc'.saw \cap DOMAIN proc'.moment
      <4>1. Seen' = Restrict(proc'.moment, D) /\ D = {}
        BY <1>1, <3>2, NoFilesOK DEF Seen, Is
      <4> QED
        BY <4>1, RestrictOK
    <3> QED
      BY <3>1, <3>2
  <2> QED
    BY <2>1 DEF Transfer!IsRestriction
<1>5. Stored' = Stored
  BY <1>1 DEF Stored
<1> QED
  BY <1>1, <1>2, <1>3, <1>4, <1>5
     DEF Promised, Transfer!TransferNext, Transfer!Start, Transfer!Commands, Commands

\* Between commands, in a fresh checkout or in the same one
LEMMA PreparesPromised ==
  ASSUME FlagsOK, FlagsOK', ~Running, proc'.step = "idle",
         archive' = archive \/ archive' = NoArchive
  PROVE  Promised
<1>1. Transfer!Over
  <2>1. At("idle") \/ At("done") \/ At("failed") \/ At("killed")
    BY DEF Running, Ended, At
  <2> QED
    BY <2>1, Progress DEF Transfer!Over
<1>2. Job' = "idle" /\ Stored' \in {Stored, NoFiles}
  BY ProgressPrimed DEF Stored
<1> QED
  BY <1>1, <1>2 DEF Promised, Transfer!TransferNext, Transfer!Prepare

LEMMA StutterPromised ==
  ASSUME UNCHANGED artifactVars
  PROVE  Promised
<1>1. tree' = tree /\ proc' = proc /\ archive' = archive
  BY DEF artifactVars
<1>2. Visible' = Visible /\ Stored' = Stored /\ Seen' = Seen /\ Job' = Job /\ Spoilt' = Spoilt
  BY <1>1 DEF Visible, Replaces, Stored, Seen, Job, Running, Spoilt, Broken, At, Is
<1> QED
  BY <1>2 DEF Promised, Transfer!transferVars

\* Between its commands, a checkout may get any files; a fresh one has nothing else in it.
LEMMA IdleKeeps ==
  ASSUME ArtifactInv, At("idle"), Tree(tree'),
         UNCHANGED <<strays, base, archive, proc, killed, edits>>
  PROVE  ArtifactInv'
<1>1. /\ ArtifactTypes /\ Attributed /\ Snapshots /\ Reading /\ Restoring /\ Untouched /\ Temporary
      /\ Is("pack") /\ DOMAIN proc.saw = {} /\ proc.same = {}
  BY DEF ArtifactInv, Attributed, Before, At
<1>2. ArtifactTypes'
  BY <1>1 DEF ArtifactTypes
<1>3. Attributed'
  BY <1>1 DEF Attributed, At, Is, Stale
<1>4. Snapshots'
  BY <1>1 DEF Snapshots, At, Is, Stood
<1>5. Reading'
  BY <1>1 DEF Reading, At, Is, Present
<1>6. Restoring' /\ Untouched'
  BY <1>1 DEF Restoring, Untouched, Is
<1>7. Temporary'
  BY <1>1 DEF Temporary, At, Is
<1> QED
  BY <1>2, <1>3, <1>4, <1>5, <1>6, <1>7 DEF ArtifactInv

LEMMA FreshKeeps ==
  ASSUME ArtifactTypes, NEW files, Tree(files), tree' = files, strays' = {}, base' = files,
         killed' = FALSE, proc' = [New("pack", "idle") EXCEPT !.moment = files],
         archive' = archive \/ archive' = NoArchive, edits' = edits
  PROVE  ArtifactInv'
<1> DEFINE p == New("pack", "idle")
<1>1. /\ Proc(p) /\ p.cmd = "pack" /\ p.step = "idle" /\ p.todo = {} /\ p.paths = {}
      /\ p.saw = NoFiles /\ p.same = {} /\ p.ours = {} /\ p.gone = {}
      /\ ~p.edited /\ ~p.committed /\ ~p.torn
  BY NewEffect
<1>2. proc' = [p EXCEPT !.moment = files]
  OBVIOUS
<1> HIDE DEF p
<1>3. /\ Proc(proc') /\ proc'.cmd = "pack" /\ proc'.step = "idle" /\ proc'.todo = {}
      /\ proc'.paths = {} /\ proc'.saw = NoFiles /\ proc'.same = {} /\ proc'.moment = files
      /\ ~proc'.edited
  BY <1>1, <1>2 DEF Proc
<1>4. ArtifactTypes'
  BY <1>3, NoFilesOK DEF ArtifactTypes, Commands, Steps, Ended
<1>5. Attributed'
  BY <1>3, NoFilesOK DEF Attributed, At, Is, RestoreOnly, Before, AfterRead, Loaded, Trying,
     RollingBack
<1>6. Snapshots'
  BY <1>3, NoFilesOK DEF Snapshots, At, Is
<1>7. Reading'
  BY <1>3, NoFilesOK DEF Reading, At, Is, Present
<1>8. Restoring' /\ Untouched' /\ Temporary'
  BY <1>3 DEF Restoring, Untouched, Temporary, Is, At
<1> QED
  BY <1>4, <1>5, <1>6, <1>7, <1>8 DEF ArtifactInv

-----------------------------------------------------------------------------
\* What promote has put where
StageRecord(s) ==
    s \in [pub : {s.pub}, tmp : {s.tmp}, idx : {s.idx}, tmpidx : {s.tmpidx}, report : {s.report}]

NothingPublished == stage.pub = NoFile /\ stage.idx = NoFile

StageInv ==
    /\ PromotionTypeOK /\ StageRecord(stage)
    /\ promote \in {"idle", "decide", "fill", "index", "rename", "blocked"} => NothingPublished
    /\ promote \in {"fill", "index", "rename", "replace", "report", "done"} => Blocked = {}
    /\ promote = "fill" => /\ DOMAIN stage.tmp \subseteq DOMAIN Chosen
                           /\ stage.tmp = Restrict(Chosen, DOMAIN stage.tmp)
    /\ promote \in {"index", "rename"} => stage.tmp = Chosen
    /\ promote \in {"rename", "replace"} => stage.tmpidx = Chosen
    /\ promote \in {"replace", "report", "done"} => stage.pub = Chosen
    /\ promote \in {"report", "done"} => stage.idx = Chosen
    /\ promote = "replace" => stage.idx = NoFile
    /\ promote = "blocked" => Blocked # {}
    /\ promote = "failed" => stage.idx = NoFile \/ stage.pub = stage.idx

-----------------------------------------------------------------------------
\* A published row says what became of its package's job in the run it names.
Recorded(row, p) ==
    /\ row \in Rows /\ row.job = p /\ row.form # "broken" /\ row.stamped
    /\ <<row.run, p>> \in DOMAIN jobs
    /\ row.status = jobs[<<row.run, p>>].conclusion /\ row.batch = jobs[<<row.run, p>>].batch

AllRecorded(files) == \A x \in DOMAIN files \ {Index} : files[x] = Junk \/ Recorded(files[x], x)

\* A file may take the place of another: it is no row, or a recorded one that is not older.
Fits(file, x, before) ==
    \/ file = Junk
    \/ /\ Recorded(file, x)
       /\ x \in DOMAIN RowsOf(before) => file.run >= before[x].run

AllFit(files, before) == \A x \in DOMAIN files \ {Index} : Fits(files[x], x, before)

\* A row of each package, none of others, and their index
Whole(files, topo) ==
    /\ DOMAIN files = {Index} \cup DOMAIN topo
    /\ files[Index] = Restrict(files, DOMAIN files \ {Index})
    /\ \A x \in DOMAIN files \ {Index} : files[x] # Junk

Commit(c) == Tree(c.files) /\ AllRecorded(c.files) /\ IsPart(c.topo, Batches)

\* The files on their way from the commit to the draft
OnTheWay(files) == AllFit(files, cycle.main.files)

PublicationTypes ==
    /\ cycle \in [number : 1..MaxCycles, phase : Phases, main : {cycle.main},
                  emitted : {cycle.emitted}, meddled : BOOLEAN]
    /\ main \in [files : {main.files}, topo : {main.topo}] /\ Commit(main)
    /\ \A j \in DOMAIN jobs :
         /\ j = <<j[1], j[2]>> /\ j[1] \in 1..cycle.number /\ j[2] \in Packages
         /\ jobs[j] \in [batch : Batches, conclusion : Conclusions]
    /\ lost \subseteq (1..MaxCycles) \X Batches /\ changes \in 0..MaxChanges

Working == {"pack", "restore", "verify"}
Staging == {"promote", "delete", "copy", "index", "base"}

\* Where promote and the artifact's commands are, by the phase of the cycle
Phased ==
    /\ cycle.phase \notin Staging => promote = "idle"
    /\ cycle.phase \in Staging \ {"promote"} => promote = "done"
    /\ cycle.phase \notin Working => At("idle") /\ Is("pack") /\ archive = NoArchive
    /\ In("pack") => Is("pack")
    /\ In("restore") => Is("restore") \/ At("idle")
    /\ In("verify") => Is("verify")

\* The commit the cycle works on, and the jobs of its run
Begun ==
    ~In("idle") =>
        /\ Commit(cycle.main) /\ base = cycle.main.files
        /\ DOMAIN cycle.main.topo = {p \in Packages : <<cycle.number, p>> \in DOMAIN jobs}
        /\ \A p \in DOMAIN cycle.main.topo :
             jobs[<<cycle.number, p>>].batch = cycle.main.topo[p]

\* What is emitted is a claim of some job of this run.
Emitted ==
    In("assemble") =>
        /\ tree = cycle.main.files
        /\ \A f \in cycle.emitted :
             /\ f.slug \in Packages /\ f.row \in Rows /\ ~f.row.stamped
             /\ f.row.job \in DOMAIN cycle.main.topo
             /\ f.row.batch = cycle.main.topo[f.row.job]

\* What is staged, and what GitHub said of it
Assembled ==
    cycle.phase \in Staging =>
        /\ staged \in [cand : {staged.cand}, prev : {staged.prev}, regs : {staged.regs},
                       prevregs : {staged.prevregs}, blocked : {staged.blocked}]
        /\ DOMAIN staged.cand = DOMAIN cycle.main.topo
        /\ \A p \in DOMAIN staged.cand :
             /\ ~staged.cand[p].stamped
             /\ staged.cand[p].job = p => staged.cand[p].batch = cycle.main.topo[p]
        /\ staged.regs = Current(cycle.number, cycle.main.topo)
        /\ DOMAIN staged.prev \subseteq DOMAIN cycle.main.topo
        /\ staged.prev = RowsOf(cycle.main.files)
        /\ DOMAIN staged.prevregs \subseteq DOMAIN staged.prev
        /\ \A p \in DOMAIN staged.prevregs :
             /\ staged.prevregs[p].run = staged.prev[p].run
             /\ staged.prevregs[p].batch = staged.prev[p].batch
             /\ staged.prevregs[p].conclusion = staged.prev[p].status
        /\ \A p \in DOMAIN staged.prev \ DOMAIN staged.prevregs :
             \/ staged.prev[p].batch # cycle.main.topo[p]
             \/ <<staged.prev[p].run, staged.prev[p].batch>> \in lost
        /\ \A p \in staged.blocked :
             p \in DOMAIN staged.cand /\ ~Identified(staged.cand[p], p, staged.regs[p])

\* What the shell has copied into the checkout
Copied ==
    /\ In("copy") => /\ Present \subseteq {Index} \cup DOMAIN stage.pub
                     /\ \A x \in Present \ {Index} : tree[x] = stage.pub[x]
    /\ In("index") => /\ DOMAIN stage.pub \subseteq Present
                      /\ Present \subseteq {Index} \cup DOMAIN stage.pub
                      /\ \A x \in Present \ {Index} : tree[x] = stage.pub[x]
    /\ In("base") => Whole(tree, cycle.main.topo)

\* The checkout, the snapshots and the artifact, while the commands carry the files
Carried ==
    /\ ~In("idle") => /\ OnTheWay(tree) /\ OnTheWay(proc.saw)
                      /\ archive # NoArchive => OnTheWay(archive.files)
    /\ In("pack") /\ ~cycle.meddled => Whole(tree, cycle.main.topo) /\ ~proc.edited
    /\ archive # NoArchive /\ ~cycle.meddled => Whole(archive.files, cycle.main.topo)

Drafted ==
    draft # NoDraft =>
        /\ Tree(draft.files) /\ AllFit(draft.files, draft.base.files)
        /\ \A p \in DOMAIN RowsOf(draft.files) :
             draft.files[p].run = draft.number => draft.files[p].batch = draft.base.topo[p]
        /\ ~draft.meddled => Whole(draft.files, draft.base.topo)

PublicationInv ==
    PublicationTypes /\ Phased /\ Begun /\ Emitted /\ Assembled /\ Copied /\ Carried /\ Drafted

IInv == ArtifactInv /\ StageInv /\ PublicationInv

-----------------------------------------------------------------------------
\* promote_package_results.py: what is chosen, and where it is
LEMMA ChosenOK ==
  ASSUME PromotionTypeOK
  PROVE  /\ DOMAIN Chosen = Promotable \cup Retainable /\ IsPart(Chosen, Rows)
         /\ Chosen = [p \in DOMAIN Chosen |-> Chosen[p]]
         /\ \A p \in Promotable : Chosen[p] = Stamped(staged.cand[p])
         /\ \A p \in Retainable : Chosen[p] = staged.prev[p]
<1>1. /\ DOMAIN Chosen = Promotable \cup Retainable
      /\ \A p \in Promotable : Chosen[p] = Stamped(staged.cand[p])
      /\ \A p \in Retainable : p \notin Promotable /\ Chosen[p] = staged.prev[p]
  BY DEF Chosen, Retainable
<1>2. Chosen = [p \in DOMAIN Chosen |-> Chosen[p]]
  BY DEF Chosen
<1>3. /\ Promotable \subseteq DOMAIN staged.cand /\ Retainable \subseteq DOMAIN staged.prev
      /\ DOMAIN staged.cand \subseteq Packages /\ DOMAIN staged.prev \subseteq Packages
      /\ \A p \in DOMAIN staged.cand : staged.cand[p] \in Rows
      /\ \A p \in DOMAIN staged.prev : staged.prev[p] \in Rows
  BY DEF PromotionTypeOK, IsPart, Promotable, Retainable
<1>4. \A row \in Rows : Stamped(row) \in Rows
  BY DEF Stamped, Rows
<1>5. IsPart(Chosen, Rows)
  BY <1>1, <1>3, <1>4 DEF IsPart
<1> QED
  BY <1>1, <1>2, <1>5

LEMMA ChosenConstant ==
  ASSUME staged' = staged
  PROVE  Chosen' = Chosen /\ Blocked' = Blocked
  BY DEF Chosen, Blocked, Promotable, Retainable

LEMMA StageRecords ==
  /\ StageRecord(EmptyStage)
  /\ \A s : StageRecord(s) => /\ StageRecord(Cleared(s)) /\ Cleared(s).pub = NoFile
                              /\ Cleared(s).tmp = NoFile /\ Cleared(s).idx = NoFile
                              /\ Cleared(s).tmpidx = NoFile /\ Cleared(s).report = s.report
  /\ \A s : StageRecord(s) => /\ StageRecord(RowsFirst(s)) /\ RowsFirst(s).pub = s.tmp
                              /\ RowsFirst(s).tmp = NoFile /\ RowsFirst(s).idx = s.idx
                              /\ RowsFirst(s).tmpidx = s.tmpidx
                              /\ RowsFirst(s).report = s.report
  BY DEF StageRecord, EmptyStage, Cleared, RowsFirst

\* Each step of promote keeps StageInv, given what it does to the staging directory.
LEMMA StageMoves ==
  ASSUME StageInv, staged' = staged, StageRecord(stage'),
         promote' \in {"idle", "decide", "fill", "index", "rename", "replace", "report",
                       "done", "blocked", "failed"},
         IsFile(stage'.pub), IsFile(stage'.tmp), IsFile(stage'.idx), IsFile(stage'.tmpidx),
         stage'.report \in {"none", "published", "blocked"},
         promote' \in {"idle", "decide", "fill", "index", "rename", "blocked"} =>
           stage'.pub = NoFile /\ stage'.idx = NoFile,
         promote' \in {"fill", "index", "rename", "replace", "report", "done"} => Blocked = {},
         promote' = "fill" => /\ DOMAIN stage'.tmp \subseteq DOMAIN Chosen
                              /\ stage'.tmp = Restrict(Chosen, DOMAIN stage'.tmp),
         promote' \in {"index", "rename"} => stage'.tmp = Chosen,
         promote' \in {"rename", "replace"} => stage'.tmpidx = Chosen,
         promote' \in {"replace", "report", "done"} => stage'.pub = Chosen,
         promote' \in {"report", "done"} => stage'.idx = Chosen,
         promote' = "replace" => stage'.idx = NoFile,
         promote' = "blocked" => Blocked # {},
         promote' = "failed" => stage'.idx = NoFile \/ stage'.pub = stage'.idx
  PROVE  StageInv'
<1>1. Chosen' = Chosen /\ Blocked' = Blocked
  BY ChosenConstant
<1>2. PromotionTypeOK'
  BY DEF StageInv, PromotionTypeOK
<1>3. (promote \in {"idle", "decide", "fill", "index", "rename", "blocked"} => NothingPublished)'
  BY DEF NothingPublished
<1>4. StageRecord(stage)'
  BY DEF StageRecord
<1> QED
  BY <1>1, <1>2, <1>3, <1>4 DEF StageInv

LEMMA PromotionKeeps ==
  ASSUME StageInv, PromotionStep
  PROVE  StageInv'
<1>1. /\ PromotionTypeOK /\ StageRecord(stage) /\ staged' = staged
      /\ IsFile(stage.pub) /\ IsFile(stage.tmp) /\ IsFile(stage.idx) /\ IsFile(stage.tmpidx)
      /\ stage.report \in {"none", "published", "blocked"}
  BY DEF StageInv, PromotionTypeOK, PromotionStep, Start, Decide, Fill, WriteIndex, Rename,
     ReplaceIndex, WriteReport, Crash
<1>2. IsFile(NoFile) /\ IsFile(Chosen) /\ IsFile(NoRows) /\ DOMAIN NoRows = {}
  BY <1>1, ChosenOK DEF IsFile, IsPart, NoRows
<1>3. CASE Start
  <2>1. /\ StageRecord(stage') /\ stage'.pub = NoFile /\ stage'.tmp = NoFile
        /\ stage'.idx = NoFile /\ stage'.tmpidx = NoFile /\ stage'.report = stage.report
        /\ promote' = "decide"
    BY <1>1, <1>3, StageRecords DEF Start
  <2> QED
    BY <1>1, <1>2, <2>1, StageMoves
<1>4. CASE Decide
  <2>1. stage.pub = NoFile /\ stage.idx = NoFile /\ promote = "decide"
    BY <1>4 DEF Decide, StageInv, NothingPublished
  <2>2. CASE ~Covered
    <3>1. promote' = "failed" /\ stage' = stage
      BY <1>4, <2>2 DEF Decide
    <3> QED
      BY <1>1, <2>1, <3>1, StageMoves
  <2>3. CASE Covered /\ Blocked = {}
    <3>1. promote' = "fill" /\ stage' = [stage EXCEPT !.tmp = NoRows]
      BY <1>4, <2>3 DEF Decide
    <3>2. /\ StageRecord(stage') /\ stage'.pub = stage.pub /\ stage'.tmp = NoRows
          /\ stage'.idx = stage.idx /\ stage'.tmpidx = stage.tmpidx
          /\ stage'.report = stage.report
      BY <1>1, <3>1 DEF StageRecord
    <3>3. NoRows = Restrict(Chosen, DOMAIN NoRows)
      BY <1>2 DEF Restrict, NoRows
    <3> QED
      BY <1>1, <1>2, <2>1, <2>3, <3>1, <3>2, <3>3, StageMoves
  <2>4. CASE Covered /\ Blocked # {}
    <3>1. promote' = "blocked" /\ stage' = [stage EXCEPT !.report = "blocked"]
      BY <1>4, <2>4 DEF Decide
    <3>2. /\ StageRecord(stage') /\ stage'.pub = stage.pub /\ stage'.tmp = stage.tmp
          /\ stage'.idx = stage.idx /\ stage'.tmpidx = stage.tmpidx
          /\ stage'.report = "blocked"
      BY <1>1, <3>1 DEF StageRecord
    <3> QED
      BY <1>1, <2>1, <2>4, <3>1, <3>2, StageMoves
  <2> QED
    BY <2>2, <2>3, <2>4
<1>5. CASE Fill
  <2>1. /\ promote = "fill" /\ stage.pub = NoFile /\ stage.idx = NoFile /\ Blocked = {}
        /\ DOMAIN stage.tmp \subseteq DOMAIN Chosen
        /\ stage.tmp = Restrict(Chosen, DOMAIN stage.tmp)
    BY <1>5 DEF Fill, StageInv, NothingPublished
  <2>2. CASE \E p \in DOMAIN Chosen \ DOMAIN stage.tmp :
               /\ stage' = [stage EXCEPT !.tmp = Restrict(Chosen, DOMAIN @ \cup {p})]
               /\ UNCHANGED promote
    <3>1. PICK p \in DOMAIN Chosen \ DOMAIN stage.tmp :
               /\ stage' = [stage EXCEPT !.tmp = Restrict(Chosen, DOMAIN stage.tmp \cup {p})]
               /\ promote' = promote
      BY <2>2
    <3> DEFINE D == DOMAIN stage.tmp \cup {p}
    <3> HIDE DEF D
    <3>2. /\ StageRecord(stage') /\ stage'.pub = stage.pub /\ stage'.tmp = Restrict(Chosen, D)
          /\ stage'.idx = stage.idx /\ stage'.tmpidx = stage.tmpidx
          /\ stage'.report = stage.report
      BY <1>1, <3>1 DEF StageRecord, D
    <3>3. D \subseteq DOMAIN Chosen /\ DOMAIN Restrict(Chosen, D) = D
      BY <2>1, <3>1 DEF D, Restrict
    <3>4. IsFile(Restrict(Chosen, D))
      BY <1>1, <3>3, ChosenOK DEF IsFile, IsPart, Restrict
    <3> QED
      BY <1>1, <2>1, <3>1, <3>2, <3>3, <3>4, StageMoves
  <2>3. CASE DOMAIN stage.tmp = DOMAIN Chosen /\ promote' = "index" /\ UNCHANGED stage
    <3>1. stage.tmp = Chosen
      BY <1>1, <2>1, <2>3, ChosenOK DEF Restrict
    <3> QED
      BY <1>1, <2>1, <2>3, <3>1, StageMoves
  <2> QED
    BY <1>5, <2>2, <2>3 DEF Fill
<1>6. CASE WriteIndex
  <2>1. /\ promote' = "rename" /\ stage.pub = NoFile /\ stage.idx = NoFile /\ Blocked = {}
        /\ stage.tmp = Chosen
    BY <1>6 DEF WriteIndex, StageInv, NothingPublished
  <2>2. /\ StageRecord(stage') /\ stage'.pub = stage.pub /\ stage'.tmp = stage.tmp
        /\ stage'.idx = stage.idx /\ stage'.tmpidx = Chosen /\ stage'.report = stage.report
    BY <1>1, <1>6, <2>1 DEF StageRecord, WriteIndex
  <2> QED
    BY <1>1, <1>2, <2>1, <2>2, StageMoves
<1>7. CASE Rename
  <2>1. /\ promote' = "replace" /\ stage.idx = NoFile /\ Blocked = {} /\ stage.tmp = Chosen
        /\ stage.tmpidx = Chosen
    BY <1>7 DEF Rename, StageInv, NothingPublished
  <2>2. /\ StageRecord(stage') /\ stage'.pub = Chosen /\ stage'.tmp = NoFile
        /\ stage'.idx = NoFile /\ stage'.tmpidx = Chosen /\ stage'.report = stage.report
    BY <1>1, <1>7, <2>1, StageRecords DEF Rename
  <2> QED
    BY <1>1, <1>2, <2>1, <2>2, StageMoves
<1>8. CASE ReplaceIndex
  <2>1. /\ promote' = "report" /\ Blocked = {} /\ stage.pub = Chosen /\ stage.tmpidx = Chosen
    BY <1>8 DEF ReplaceIndex, StageInv
  <2>2. /\ StageRecord(stage') /\ stage'.pub = Chosen /\ stage'.tmp = stage.tmp
        /\ stage'.idx = Chosen /\ stage'.tmpidx = NoFile /\ stage'.report = stage.report
    BY <1>1, <1>8, <2>1 DEF StageRecord, ReplaceIndex
  <2> QED
    BY <1>1, <1>2, <2>1, <2>2, StageMoves
<1>9. CASE WriteReport
  <2>1. /\ promote' = "done" /\ Blocked = {} /\ stage.pub = Chosen /\ stage.idx = Chosen
    BY <1>9 DEF WriteReport, StageInv
  <2>2. /\ StageRecord(stage') /\ stage'.pub = Chosen /\ stage'.tmp = stage.tmp
        /\ stage'.idx = Chosen /\ stage'.tmpidx = stage.tmpidx /\ stage'.report = "published"
    BY <1>1, <1>9, <2>1 DEF StageRecord, WriteReport
  <2> QED
    BY <1>1, <1>2, <2>1, <2>2, StageMoves
<1>10. CASE Crash
  <2>1. /\ promote' = "failed" /\ stage' = stage
        /\ stage.idx = NoFile \/ stage.pub = stage.idx
    BY <1>10 DEF Crash, StageInv, NothingPublished
  <2> QED
    BY <1>1, <1>10, <2>1, StageMoves DEF Crash
<1> QED
  BY <1>3, <1>4, <1>5, <1>6, <1>7, <1>8, <1>9, <1>10 DEF PromotionStep

LEMMA PromotionStutters ==
  ASSUME StageInv, UNCHANGED promotionVars
  PROVE  StageInv'
<1>1. staged' = staged /\ stage' = stage /\ promote' = promote
  BY DEF promotionVars
<1>2. Chosen' = Chosen /\ Blocked' = Blocked
  BY <1>1, ChosenConstant
<1> QED
  BY <1>1, <1>2 DEF StageInv, PromotionTypeOK, NothingPublished

\* The staging directory goes, or is filled before promote runs.
LEMMA ScratchKeeps ==
  ASSUME ScratchRemoved
  PROVE  StageInv'
<1>1. staged' = NothingStaged /\ stage' = EmptyStage /\ promote' = "idle"
  BY DEF ScratchRemoved
<1>2. PromotionTypeOK'
  BY <1>1 DEF PromotionTypeOK, NothingStaged, EmptyStage, NoRows, IsPart, IsFile
<1>3. StageRecord(stage)' /\ NothingPublished'
  BY <1>1, StageRecords DEF NothingPublished, EmptyStage, StageRecord
<1> QED
  BY <1>1, <1>2, <1>3 DEF StageInv

-----------------------------------------------------------------------------
\* Rows and files
LEMMA PackagePaths == Packages = Paths \ {Index} /\ Index \in Paths /\ Index \notin Packages
  BY ArtifactConstants, PackagesArePaths DEF Paths, Index

LEMMA RowsOfOK ==
  \A files : /\ DOMAIN RowsOf(files) = {p \in DOMAIN files \ {Index} : files[p] # Junk}
             /\ \A p \in DOMAIN RowsOf(files) : RowsOf(files)[p] = files[p]
  BY DEF RowsOf, Restrict

LEMMA OneRow ==
  \A files, p : p \in DOMAIN RowsOf(files) =>
    p \in DOMAIN files \ {Index} /\ files[p] # Junk /\ RowsOf(files)[p] = files[p]
  BY RowsOfOK

LEMMA RecordedRows ==
  \A row, p : Recorded(row, p) => row \in Rows /\ row # Junk /\ row.run \in Nat
  BY JunkIsNoRow DEF Recorded, Rows

LEMMA FitsSame ==
  ASSUME jobs' = jobs
  PROVE  /\ \A row, p : Recorded(row, p)' <=> Recorded(row, p)
         /\ \A file, x, before : Fits(file, x, before)' <=> Fits(file, x, before)
         /\ \A files : AllRecorded(files)' <=> AllRecorded(files)
         /\ \A files, before : AllFit(files, before)' <=> AllFit(files, before)
  BY DEF Recorded, Fits, AllRecorded, AllFit

LEMMA FitRecorded ==
  ASSUME NEW files, NEW before, AllFit(files, before)
  PROVE  AllRecorded(files)
  BY DEF AllFit, Fits, AllRecorded

LEMMA FitPut ==
  ASSUME NEW files, NEW before, AllFit(files, before), NEW x, NEW v,
         x = Index \/ Fits(v, x, before)
  PROVE  AllFit(Put(files, x, v), before)
  BY DEF AllFit, Put

LEMMA FitRestrict ==
  ASSUME NEW files, NEW before, AllFit(files, before), NEW S \in SUBSET DOMAIN files
  PROVE  AllFit(Restrict(files, S), before)
  BY DEF AllFit, Restrict

\* The commit's own files fit.
LEMMA FitItself ==
  ASSUME NEW files, AllRecorded(files)
  PROVE  AllFit(files, files)
  BY RecordedRows DEF AllRecorded, AllFit, Fits

LEMMA NothingFits == \A before : AllFit(NoFiles, before)
  BY NoFilesOK DEF AllFit

\* A whole publication is of rows only.
LEMMA WholeSame ==
  ASSUME NEW files, NEW topo, Whole(files, topo)
  PROVE  /\ DOMAIN files = {Index} \cup DOMAIN topo
         /\ \A x \in DOMAIN files \ {Index} : files[x] # Junk
  BY DEF Whole

-----------------------------------------------------------------------------
\* What stays when others move
\* The run goes to a phase, or stays in it, and keeps its number and its commit.
Moves(phase) ==
    cycle' \in [number : {cycle.number}, phase : {phase}, main : {cycle.main},
                emitted : {cycle'.emitted}, meddled : BOOLEAN]

LEMMA TypesStay ==
  ASSUME PublicationTypes, main' = main, jobs' = jobs, lost' = lost, changes' = changes,
         NEW phase \in Phases, Moves(phase)
  PROVE  PublicationTypes'
<1>1. /\ cycle'.number = cycle.number /\ cycle.number \in 1..MaxCycles
      /\ cycle' \in [number : 1..MaxCycles, phase : Phases, main : {cycle'.main},
                     emitted : {cycle'.emitted}, meddled : BOOLEAN]
  BY DEF Moves, PublicationTypes
<1>2. Commit(main)'
  BY FitsSame DEF PublicationTypes, Commit
<1> QED
  BY <1>1, <1>2 DEF PublicationTypes

LEMMA Entered ==
  ASSUME PublicationTypes, NEW phase \in Phases, Enter(phase)
  PROVE  /\ Moves(phase) /\ cycle'.phase = phase /\ cycle'.main = cycle.main
         /\ cycle'.number = cycle.number /\ cycle'.emitted = cycle.emitted
         /\ cycle'.meddled = cycle.meddled
  BY DEF PublicationTypes, Enter, Moves

LEMMA Stayed ==
  ASSUME PublicationTypes, cycle' = cycle
  PROVE  Moves(cycle.phase) /\ cycle.phase \in Phases
  BY DEF PublicationTypes, Moves

LEMMA DraftStays ==
  ASSUME Drafted, draft' = draft, jobs' = jobs
  PROVE  Drafted'
<1>1. AllFit(draft.files, draft.base.files)' <=> AllFit(draft.files, draft.base.files)
  BY FitsSame DEF AllFit, Fits, Recorded
<1> QED
  BY <1>1 DEF Drafted

LEMMA BegunStays ==
  ASSUME Begun, ~In("idle"), cycle'.main = cycle.main, cycle'.number = cycle.number,
         jobs' = jobs, base' = base
  PROVE  Begun'
<1>1. Commit(cycle.main)' <=> Commit(cycle.main)
  BY FitsSame DEF Commit, AllRecorded, Recorded
<1> QED
  BY <1>1 DEF Begun

LEMMA AssembledStays ==
  ASSUME Assembled, cycle.phase \in Staging, cycle'.main = cycle.main,
         cycle'.number = cycle.number, jobs' = jobs, lost' = lost, staged' = staged
  PROVE  Assembled'
<1>1. Current(cycle.number, cycle.main.topo)' = Current(cycle.number, cycle.main.topo)
  BY DEF Current
<1> QED
  BY <1>1 DEF Assembled

LEMMA WayStays ==
  ASSUME NEW files, OnTheWay(files), jobs' = jobs, cycle'.main = cycle.main
  PROVE  OnTheWay(files)'
  BY DEF OnTheWay, AllFit, Fits, Recorded

-----------------------------------------------------------------------------
\* What a promotion that succeeds publishes is recorded and not older than what is there.
LEMMA ChosenFits ==
  ASSUME IInv, cycle.phase \in Staging, Blocked = {}
  PROVE  /\ DOMAIN Chosen = DOMAIN cycle.main.topo
         /\ \A p \in DOMAIN Chosen : Fits(Chosen[p], p, cycle.main.files) /\ Chosen[p] # Junk
<1>1. /\ PromotionTypeOK /\ Assembled /\ Begun /\ PublicationTypes /\ Commit(cycle.main)
  BY DEF IInv, StageInv, PublicationInv, Begun, In, Staging
<1>2. /\ DOMAIN staged.cand = DOMAIN cycle.main.topo
      /\ staged.prev = RowsOf(cycle.main.files)
      /\ DOMAIN staged.prev \subseteq DOMAIN cycle.main.topo
      /\ staged.regs = Current(cycle.number, cycle.main.topo)
  BY <1>1 DEF Assembled
<1>3. DOMAIN Chosen = DOMAIN cycle.main.topo
  <2>1. Promotable \subseteq DOMAIN staged.cand /\ Retainable \subseteq DOMAIN staged.prev
    BY DEF Promotable, Retainable
  <2> QED
    BY <1>1, <1>2, <2>1, ChosenOK DEF Blocked
<1>4. ASSUME NEW p \in Promotable
      PROVE  Fits(Chosen[p], p, cycle.main.files)
  <2>1. /\ p \in DOMAIN cycle.main.topo /\ p \in DOMAIN staged.cand /\ staged.cand[p] \in Rows
        /\ Valid(staged.cand[p], p, staged.regs[p], "candidate")
    BY <1>1, <1>2 DEF Promotable, PromotionTypeOK, IsPart
  <2>2. /\ staged.regs[p].run = cycle.number /\ staged.regs[p].batch = cycle.main.topo[p]
        /\ staged.regs[p].conclusion = jobs[<<cycle.number, p>>].conclusion
    BY <1>2, <2>1 DEF Current
  <2>3. /\ <<cycle.number, p>> \in DOMAIN jobs /\ cycle.number \in 1..MaxCycles
        /\ jobs[<<cycle.number, p>>].batch = cycle.main.topo[p]
    BY <1>1, <2>1 DEF Begun, In, Staging, PublicationTypes
  <2>4. /\ staged.cand[p].form = "strict" /\ staged.cand[p].job = p
        /\ staged.cand[p].run = cycle.number /\ staged.cand[p].batch = cycle.main.topo[p]
        /\ staged.cand[p].status = jobs[<<cycle.number, p>>].conclusion
    BY <2>1, <2>2 DEF Valid, Identified, Conclusive
  <2>5. Chosen[p] = Stamped(staged.cand[p])
    BY <1>1, ChosenOK
  <2>6. /\ Chosen[p] \in Rows /\ Chosen[p].stamped /\ Chosen[p].form = "strict"
        /\ Chosen[p].job = p /\ Chosen[p].run = cycle.number
        /\ Chosen[p].batch = cycle.main.topo[p]
        /\ Chosen[p].status = jobs[<<cycle.number, p>>].conclusion
    BY <2>1, <2>4, <2>5 DEF Stamped, Rows
  <2>7. Recorded(Chosen[p], p)
    BY <2>3, <2>6 DEF Recorded
  <2>8. p \in DOMAIN RowsOf(cycle.main.files) => cycle.number >= cycle.main.files[p].run
    <3>1. SUFFICES ASSUME p \in DOMAIN RowsOf(cycle.main.files)
                   PROVE  cycle.number >= cycle.main.files[p].run
      OBVIOUS
    <3>2. Recorded(cycle.main.files[p], p)
      BY <1>1, <3>1, OneRow DEF Commit, AllRecorded
    <3>3. <<cycle.main.files[p].run, p>> \in DOMAIN jobs
      BY <3>2 DEF Recorded
    <3>4. cycle.main.files[p].run \in 1..cycle.number
      BY <1>1, <3>3 DEF PublicationTypes
    <3> QED
      BY <2>3, <3>4
  <2> QED
    BY <2>6, <2>7, <2>8 DEF Fits
<1>5. ASSUME NEW p \in Retainable
      PROVE  Fits(Chosen[p], p, cycle.main.files)
  <2>1. /\ p \in DOMAIN RowsOf(cycle.main.files) /\ Chosen[p] = staged.prev[p]
        /\ staged.prev[p] = cycle.main.files[p]
    BY <1>1, <1>2, ChosenOK, RowsOfOK DEF Retainable
  <2>2. Recorded(cycle.main.files[p], p)
    <3>1. p \in DOMAIN cycle.main.files \ {Index} /\ cycle.main.files[p] # Junk
      BY <2>1, OneRow
    <3> QED
      BY <1>1, <3>1 DEF Commit, AllRecorded
  <2> QED
    BY <2>1, <2>2, RecordedRows DEF Fits
<1>6. \A p \in DOMAIN Chosen : Fits(Chosen[p], p, cycle.main.files)
  BY <1>1, <1>4, <1>5, ChosenOK
<1>7. \A p \in DOMAIN Chosen : Chosen[p] # Junk
  BY <1>1, ChosenOK, JunkIsNoRow DEF IsPart
<1> QED
  BY <1>3, <1>6, <1>7

-----------------------------------------------------------------------------
\* The checkout while rows are promoted and copied
LEMMA StagingKeeps ==
  ASSUME IInv, cycle.phase \in Staging, NEW phase \in Staging, Moves(phase),
         phase # "promote" => promote' = "done", staged' = staged,
         UNCHANGED <<base, archive, proc, main, draft, jobs, lost, changes>>,
         OnTheWay(tree)', Copied'
  PROVE  PublicationInv'
<1>1. /\ PublicationTypes /\ Phased /\ Begun /\ Assembled /\ Carried /\ Drafted
  BY DEF IInv, PublicationInv
<1>2. /\ phase \in Phases /\ cycle'.phase = phase /\ cycle'.main = cycle.main
      /\ cycle'.number = cycle.number /\ ~In("idle") /\ ~In("idle")'
      /\ cycle.phase \notin Working /\ phase \notin Working
  BY DEF Moves, Staging, Phases, Working, In
<1>3. PublicationTypes'
  BY <1>1, <1>2, TypesStay
<1>4. At("idle") /\ Is("pack") /\ archive = NoArchive
  BY <1>1, <1>2 DEF Phased
<1>5. Phased'
  BY <1>2, <1>4 DEF Phased, Working, At, Is, In
<1>6. Begun'
  BY <1>1, <1>2, BegunStays
<1>7. Emitted'
  BY <1>2 DEF Emitted, In, Staging
<1>8. Assembled'
  BY <1>1, <1>2, AssembledStays
<1>9. Carried'
  <2>1. OnTheWay(proc.saw)'
    BY <1>1, <1>2, WayStays DEF Carried, OnTheWay, AllFit, Fits, Recorded
  <2> QED
    BY <1>2, <1>4, <2>1 DEF Carried, In, Staging
<1>10. Drafted'
  BY <1>1, DraftStays
<1> QED
  BY <1>3, <1>5, <1>6, <1>7, <1>8, <1>9, <1>10 DEF PublicationInv

LEMMA PromoteKeeps ==
  ASSUME IInv, Promote
  PROVE  IInv'
<1>1. /\ ArtifactInv /\ StageInv /\ PublicationTypes /\ Phased /\ Carried
      /\ cycle.phase = "promote" /\ PromotionStep /\ staged' = staged
      /\ UNCHANGED <<artifactVars, main, draft, jobs, lost, changes>>
  BY DEF IInv, PublicationInv, Promote, In, PromotionStep, Start, Decide, Fill, WriteIndex,
     Rename, ReplaceIndex, WriteReport, Crash
<1>2. ArtifactInv' /\ StageInv'
  BY <1>1, ArtifactStutters, PromotionKeeps
<1>3. PICK phase \in {"promote", "delete"} :
        /\ phase # "promote" => promote' = "done"
        /\ cycle' = [cycle EXCEPT !.phase = phase]
  BY <1>1 DEF Promote
<1>4. phase \in Phases /\ phase \in Staging /\ Moves(phase) /\ cycle'.phase = phase
      /\ cycle'.main = cycle.main
  BY <1>1, <1>3 DEF Phases, Staging, PublicationTypes, Moves
<1>5. /\ tree' = tree /\ base' = base /\ archive' = archive /\ proc' = proc
      /\ main' = main /\ draft' = draft /\ jobs' = jobs /\ lost' = lost /\ changes' = changes
  BY <1>1 DEF artifactVars
<1>6. OnTheWay(tree)'
  <2>1. OnTheWay(tree)
    BY <1>1 DEF Carried, In
  <2> QED
    BY <1>4, <1>5, <2>1 DEF OnTheWay, AllFit, Fits, Recorded
<1>7. Copied'
  BY <1>3, <1>4 DEF Copied, In
<1>8. cycle.phase \in Staging
  BY <1>1 DEF Staging
<1>9. PublicationInv'
  BY <1>1, <1>3, <1>4, <1>5, <1>6, <1>7, <1>8, StagingKeeps
<1> QED
  BY <1>2, <1>9 DEF IInv

\* The shell's steps after a promotion
LEMMA CopyKeeps ==
  ASSUME IInv, cycle.phase \in Staging \ {"promote"}, NEW phase \in Staging, Moves(phase),
         UNCHANGED <<strays, base, archive, proc, killed, edits, promotionVars, main, draft,
                     jobs, lost, changes>>,
         NEW f, tree' = f, Tree(f), OnTheWay(f), Copied'
  PROVE  IInv'
<1>1. ArtifactInv /\ StageInv /\ Phased
  BY DEF IInv, PublicationInv
<1>2. /\ promote = "done" /\ promote' = "done" /\ staged' = staged /\ UNCHANGED promotionVars
      /\ cycle.phase \in Staging /\ cycle'.main = cycle.main
  BY <1>1 DEF Phased, promotionVars, Moves
<1>3. At("idle")
  BY <1>1 DEF Phased, Staging, Working
<1>4. ArtifactInv'
  BY <1>1, <1>3, IdleKeeps
<1>5. StageInv'
  BY <1>1, <1>2, PromotionStutters
<1>6. OnTheWay(tree)'
  BY <1>2 DEF OnTheWay, AllFit, Fits, Recorded
<1>7. PublicationInv'
  BY <1>2, <1>6, StagingKeeps
<1> QED
  BY <1>4, <1>5, <1>7 DEF IInv

LEMMA DeleteRowsKeeps ==
  ASSUME IInv, DeleteRows
  PROVE  IInv'
<1>1. /\ cycle.phase = "delete" /\ PublicationTypes /\ Carried /\ Enter("copy")
      /\ ArtifactTypes /\ ~In("idle")
      /\ UNCHANGED <<strays, base, archive, proc, killed, edits, promotionVars, main, draft,
                     jobs, lost, changes>>
  BY DEF IInv, PublicationInv, ArtifactInv, DeleteRows, In
<1>2. Tree(tree) /\ OnTheWay(tree)
  BY <1>1 DEF ArtifactTypes, Carried
<1>3. PICK f : f = Restrict(tree, Present \cap {Index})
  OBVIOUS
<1>4. Present \cap {Index} \in SUBSET DOMAIN tree
  BY DEF Present
<1>5. Tree(f) /\ AllFit(f, cycle.main.files) /\ DOMAIN f = Present \cap {Index}
  BY <1>2, <1>3, <1>4, RestrictTree, FitRestrict, RestrictOK DEF OnTheWay
<1>6. tree' = f
  BY <1>3 DEF DeleteRows
<1>7. "copy" \in Phases /\ "copy" \in Staging /\ cycle.phase \in Staging \ {"promote"}
  BY <1>1 DEF Phases, Staging
<1>8. Moves("copy") /\ cycle'.phase = "copy"
  BY <1>1, <1>7, Entered
<1>9. Copied'
  <2>1. Present' \subseteq {Index}
    BY <1>5, <1>6 DEF Present
  <2> QED
    BY <1>8, <2>1 DEF Copied, In
<1> QED
  BY <1>1, <1>5, <1>6, <1>7, <1>8, <1>9, CopyKeeps DEF OnTheWay

LEMMA CopyRowKeeps ==
  ASSUME IInv, CopyRow
  PROVE  IInv'
<1>1. /\ cycle.phase = "copy" /\ PublicationTypes /\ Carried /\ Copied /\ Phased
      /\ ArtifactTypes /\ StageInv /\ ~In("idle")
      /\ UNCHANGED <<strays, base, archive, proc, killed, edits, promotionVars, main, draft,
                     jobs, lost, changes>>
      /\ stage' = stage
  BY DEF IInv, PublicationInv, ArtifactInv, CopyRow, In, promotionVars
<1>2. /\ Tree(tree) /\ OnTheWay(tree) /\ cycle.phase \in Staging \ {"promote"}
      /\ {"copy", "index"} \subseteq Phases \cap Staging
  BY <1>1 DEF ArtifactTypes, Carried, Staging, Phases
<1>3. stage.pub = Chosen /\ Blocked = {} /\ promote = "done"
  BY <1>1 DEF Phased, StageInv, Staging
<1>4. /\ DOMAIN Chosen = DOMAIN cycle.main.topo
      /\ \A p \in DOMAIN Chosen : Fits(Chosen[p], p, cycle.main.files)
      /\ DOMAIN Chosen \subseteq Packages
  <2>1. PromotionTypeOK
    BY <1>1 DEF StageInv
  <2> QED
    BY <1>2, <1>3, <2>1, ChosenFits, ChosenOK DEF IsPart
<1>5. /\ Present \subseteq {Index} \cup DOMAIN stage.pub
      /\ \A x \in Present \ {Index} : tree[x] = stage.pub[x]
  BY <1>1 DEF Copied, In
<1>6. CASE \E p \in DOMAIN stage.pub \ Present :
             tree' = With(p, stage.pub[p]) /\ UNCHANGED cycle
  <2>1. PICK p \in DOMAIN stage.pub \ Present :
          tree' = With(p, stage.pub[p]) /\ cycle' = cycle
    BY <1>6
  <2>2. PICK v : v = stage.pub[p]
    OBVIOUS
  <2>3. PICK f : f = Put(tree, p, v)
    OBVIOUS
  <2>4. tree' = f
    BY <2>1, <2>2, <2>3 DEF With
  <2>5. p \in Paths /\ p # Index /\ Fits(v, p, cycle.main.files)
    BY <1>3, <1>4, <2>1, <2>2, PackagePaths
  <2>6. Tree(f)
    BY <1>2, <2>3, <2>5, PutTree
  <2>7. OnTheWay(f)
    BY <1>2, <2>3, <2>5, FitPut DEF OnTheWay
  <2>8. /\ DOMAIN f = Present \cup {p} /\ f[p] = v
        /\ \A y \in Present : y # p => f[y] = tree[y]
    <3>1. DOMAIN f = DOMAIN tree \cup {p}
      BY <2>3, PutOK
    <3>3. f[p] = v
      BY <2>3, PutOK
    <3>2. \A y \in DOMAIN tree : y # p => f[y] = tree[y]
      BY <2>3, PutOK
    <3> QED
      BY <3>1, <3>2, <3>3 DEF Present
  <2>9. Copied'
    <3>1. Present' \subseteq {Index} \cup DOMAIN stage.pub
      BY <1>5, <2>1, <2>4, <2>8 DEF Present
    <3>2. \A x \in Present' \ {Index} : tree'[x] = stage.pub[x]
      BY <1>5, <2>1, <2>2, <2>4, <2>8 DEF Present
    <3> QED
      BY <1>1, <2>1, <3>1, <3>2 DEF Copied, In
  <2>10. Moves("copy")
    BY <1>1, <2>1, Stayed
  <2> QED
    BY <1>1, <1>2, <2>4, <2>6, <2>7, <2>9, <2>10, CopyKeeps
<1>7. CASE DOMAIN stage.pub \subseteq Present /\ Enter("index") /\ UNCHANGED tree
  <2>1. Moves("index") /\ cycle'.phase = "index"
    BY <1>1, <1>2, <1>7, Entered
  <2>2. PICK f : f = tree
    OBVIOUS
  <2>3. Copied'
    BY <1>1, <1>5, <1>7, <2>1 DEF Copied, In, Present
  <2>4. tree' = f /\ Tree(f) /\ OnTheWay(f)
    BY <1>2, <1>7, <2>2
  <2> QED
    BY <1>1, <1>2, <2>1, <2>3, <2>4, CopyKeeps
<1> QED
  BY <1>6, <1>7 DEF CopyRow

LEMMA CopyIndexKeeps ==
  ASSUME IInv, CopyIndex
  PROVE  IInv'
<1>1. /\ cycle.phase = "index" /\ PublicationTypes /\ Carried /\ Copied /\ Phased /\ Enter("base")
      /\ ArtifactTypes /\ StageInv /\ ~In("idle")
      /\ UNCHANGED <<strays, base, archive, proc, killed, edits, promotionVars, main, draft,
                     jobs, lost, changes>>
  BY DEF IInv, PublicationInv, ArtifactInv, CopyIndex, In
<1>2. /\ Tree(tree) /\ OnTheWay(tree) /\ cycle.phase \in Staging \ {"promote"}
      /\ "base" \in Phases \cap Staging
  BY <1>1 DEF ArtifactTypes, Carried, Staging, Phases
<1>3. stage.pub = Chosen /\ stage.idx = Chosen /\ Blocked = {} /\ promote = "done"
  BY <1>1 DEF Phased, StageInv, Staging
<1>4. /\ DOMAIN Chosen = DOMAIN cycle.main.topo /\ DOMAIN Chosen \subseteq Packages
      /\ \A p \in DOMAIN Chosen : Chosen[p] # Junk
      /\ Chosen = [p \in DOMAIN Chosen |-> Chosen[p]]
  <2>1. PromotionTypeOK
    BY <1>1 DEF StageInv
  <2> QED
    BY <1>2, <1>3, <2>1, ChosenFits, ChosenOK DEF IsPart
<1>5. /\ DOMAIN stage.pub \subseteq Present /\ Present \subseteq {Index} \cup DOMAIN stage.pub
      /\ \A x \in Present \ {Index} : tree[x] = stage.pub[x]
  BY <1>1 DEF Copied, In
<1>6. PICK f : f = Put(tree, Index, stage.idx)
  OBVIOUS
<1>7. tree' = f
  BY <1>6 DEF CopyIndex, With
<1>8. Tree(f) /\ OnTheWay(f)
  BY <1>2, <1>6, PathsAreNumbers, PutTree, FitPut DEF OnTheWay
<1>9. Whole(f, cycle.main.topo)
  <2>1. /\ DOMAIN f = Present \cup {Index} /\ f[Index] = Chosen
        /\ \A y \in Present : y # Index => f[y] = tree[y]
    <3>1. DOMAIN f = DOMAIN tree \cup {Index}
      BY <1>6, PutOK
    <3>3. f[Index] = stage.idx
      BY <1>6, PutOK
    <3>2. \A y \in DOMAIN tree : y # Index => f[y] = tree[y]
      BY <1>6, PutOK
    <3> QED
      BY <1>3, <3>1, <3>2, <3>3 DEF Present
  <2>2. DOMAIN f = {Index} \cup DOMAIN Chosen /\ Index \notin DOMAIN Chosen
    BY <1>3, <1>4, <1>5, <2>1, PackagePaths
  <2>3. \A x \in DOMAIN Chosen : f[x] = Chosen[x]
    BY <1>3, <1>5, <2>1, <2>2
  <2>4. DOMAIN f \ {Index} = DOMAIN Chosen
    BY <2>2
  <2>5. Restrict(f, DOMAIN f \ {Index}) = [x \in DOMAIN Chosen |-> f[x]]
    BY <2>4 DEF Restrict
  <2>6. Restrict(f, DOMAIN f \ {Index}) = Chosen
    BY <1>4, <2>3, <2>5
  <2> QED
    BY <1>4, <2>1, <2>2, <2>3, <2>4, <2>6 DEF Whole
<1>10. Moves("base") /\ cycle'.phase = "base" /\ cycle'.main = cycle.main
  BY <1>1, <1>2, Entered
<1>11. Copied'
  BY <1>7, <1>9, <1>10 DEF Copied, In
<1> QED
  BY <1>1, <1>2, <1>7, <1>8, <1>10, <1>11, CopyKeeps

-----------------------------------------------------------------------------
\* What a step of a command does to the files: it moves those it knows.
FilesCarried ==
    /\ proc'.cmd = proc.cmd /\ proc'.edited = proc.edited /\ base' = base
    /\ proc'.saw = proc.saw \/ \E x \in Present : proc'.saw = Put(proc.saw, x, tree[x])
    /\ \/ tree' = tree
       \/ /\ Is("restore")
          /\ \/ \E x \in Present : tree' = Without(x)
             \/ /\ archive # NoArchive
                /\ \E x \in DOMAIN archive.files : tree' = With(x, archive.files[x])
             \/ \E x \in DOMAIN proc.saw : tree' = With(x, proc.saw[x])
    /\ \/ archive' = archive
       \/ /\ At("finish") /\ Present = proc.paths /\ Is("pack") /\ tree' = tree
          /\ archive' = [base |-> base, files |-> proc.saw]

LEMMA FilesMove ==
  ASSUME ArtifactInv, Command \/ Raise \/ Kill
  PROVE  FilesCarried
<1>1. Proc(proc) /\ Attributed /\ ArtifactTypes
  BY DEF ArtifactInv, ArtifactTypes
<1>20. proc.step \in {"replace", "rewrite"} => proc.todo \subseteq Nat
  <2>1. At("rewrite") => proc.todo \subseteq Paths
    BY <1>1 DEF Attributed, ArtifactTypes, Tree
  <2>2. At("replace") => proc.todo \subseteq Paths
    BY <1>1 DEF Attributed, ArtifactTypes, At, Is, Tree, Loaded, AfterRead, Trying, RestoreOnly
  <2> QED
    BY <2>1, <2>2, PathsAreNumbers DEF At
<1>2. CASE CheckState
  BY <1>1, <1>2, CheckStateEffect DEF CheckState, FilesCarried
<1>3. CASE Discover
  BY <1>1, <1>3, DiscoverEffect DEF Discover, FilesCarried
<1>4. CASE Load
  BY <1>1, <1>4, LoadEffect DEF Load, FilesCarried, Kept
<1>5. CASE CheckAgain
  BY <1>1, <1>5, CheckAgainEffect DEF CheckAgain, FilesCarried, Kept
<1>6. CASE Stage
  BY <1>1, <1>6, StageEffect DEF Stage, FilesCarried, Kept
<1>7. CASE CheckUnchanged
  BY <1>1, <1>7, CheckUnchangedEffect DEF CheckUnchanged, FilesCarried, Kept
<1>8. CASE CheckStale
  BY <1>1, <1>8, CheckStaleEffect DEF CheckStale, FilesCarried, Kept
<1>9. CASE Recheck
  BY <1>1, <1>9, RecheckEffect DEF Recheck, FilesCarried, Kept
<1>10. CASE Compare
  BY <1>1, <1>10, CompareEffect DEF Compare, FilesCarried, Kept
<1>11. CASE Final
  BY <1>1, <1>11, EndEffect DEF Final, FilesCarried, Kept
<1>12. CASE Finish
  BY <1>1, <1>12, EndEffect DEF Finish, FilesCarried, Kept
<1>13. CASE Kill
  BY <1>1, <1>13, KillEffect DEF Kill, FilesCarried, Kept
<1>14. CASE Raise
  BY <1>1, <1>14, RaiseEffect DEF Raise, FilesCarried
<1>15. CASE Read
  <2>1. PICK x : x = Min(proc.todo)
    OBVIOUS
  <2>2. /\ proc'.saw = Put(proc.saw, x, tree[x]) /\ proc'.cmd = proc.cmd
        /\ proc'.edited = proc.edited
    BY <1>1, <1>15, <2>1, ReadEffect
  <2>3. x \in Present /\ tree' = tree /\ base' = base /\ archive' = archive
    BY <1>15, <2>1 DEF Read
  <2> QED
    BY <2>2, <2>3 DEF FilesCarried
<1>16. CASE Unlink
  <2>1. PICK x : x = Max(proc.todo)
    OBVIOUS
  <2>2. Kept(proc', proc)
    BY <1>1, <1>16, <2>1, UnlinkEffect
  <2>3. /\ x \in Present /\ tree' = Without(x) /\ base' = base /\ archive' = archive
        /\ Is("restore")
    BY <1>1, <1>16, <2>1 DEF Unlink, Attributed, At, RestoreOnly
  <2> QED
    BY <2>2, <2>3 DEF FilesCarried, Kept
<1>17. CASE Replace
  <2>1. PICK x : x = Min(proc.todo)
    OBVIOUS
  <2>2. Kept(proc', proc)
    BY <1>1, <1>17, <2>1, ReplaceEffect
  <2>3. /\ tree' = With(x, archive.files[x]) /\ base' = base /\ archive' = archive
        /\ At("replace")
    BY <1>17, <2>1 DEF Replace
  <2>4. /\ Is("restore") /\ archive # NoArchive /\ proc.todo # {}
        /\ proc.todo \subseteq DOMAIN archive.files
    BY <1>1, <2>3 DEF Attributed, At, Is, RestoreOnly, Loaded, AfterRead, Trying
  <2>5. x \in DOMAIN archive.files
    BY <1>20, <2>1, <2>3, <2>4, MinIn DEF At
  <2> QED
    BY <2>2, <2>3, <2>4, <2>5 DEF FilesCarried, Kept
<1>18. CASE Clear
  <2>1. Is("restore") /\ base' = base /\ archive' = archive
    BY <1>1, <1>18 DEF Clear, Attributed, At, RestoreOnly, RollingBack
  <2> QED
    BY <1>1, <1>18, <2>1, ClearEffect DEF FilesCarried, Kept
<1>19. CASE Rewrite
  <2>1. PICK x : x = Min(proc.todo)
    OBVIOUS
  <2>2. Kept(proc', proc)
    BY <1>1, <1>19, <2>1, RewriteEffect
  <2>3. /\ tree' = With(x, proc.saw[x]) /\ base' = base /\ archive' = archive
        /\ At("rewrite")
    BY <1>19, <2>1 DEF Rewrite
  <2>4. /\ Is("restore") /\ proc.todo # {} /\ proc.todo \subseteq DOMAIN proc.saw
    BY <1>1, <2>3 DEF Attributed, At, RestoreOnly, RollingBack
  <2>5. x \in DOMAIN proc.saw
    BY <1>20, <2>1, <2>3, <2>4, MinIn DEF At
  <2> QED
    BY <2>2, <2>3, <2>4, <2>5 DEF FilesCarried, Kept
<1> QED
  BY <1>2, <1>3, <1>4, <1>5, <1>6, <1>7, <1>8, <1>9, <1>10, <1>11, <1>12, <1>13, <1>14,
     <1>15, <1>16, <1>17, <1>18, <1>19 DEF Command

\* The checkout while the artifact's commands work on it
LEMMA WorkKeeps ==
  ASSUME IInv, ~In("idle"), NEW phase \in Working, Moves(phase), base' = base,
         promote' = "idle", UNCHANGED <<main, draft, jobs, lost, changes>>,
         phase = "pack" => proc'.cmd = "pack",
         phase = "restore" => proc'.cmd = "restore" \/ proc'.step = "idle",
         phase = "verify" => proc'.cmd = "verify",
         Carried'
  PROVE  PublicationInv'
<1>1. /\ PublicationTypes /\ Phased /\ Begun /\ Drafted
  BY DEF IInv, PublicationInv
<1>2. /\ phase \in Phases /\ cycle'.phase = phase /\ cycle'.main = cycle.main
      /\ cycle'.number = cycle.number /\ phase \notin Staging
      /\ phase # "idle" /\ phase # "assemble"
  BY DEF Moves, Staging, Phases, Working
<1>3. PublicationTypes'
  BY <1>1, <1>2, TypesStay
<1>4. Phased'
  BY <1>2 DEF Phased, At, Is, In
<1>5. Begun'
  BY <1>1, <1>2, BegunStays
<1>6. Emitted' /\ Assembled'
  BY <1>2 DEF Emitted, Assembled, In
<1>7. Copied'
  BY <1>2 DEF Copied, In, Working
<1>8. Drafted'
  BY <1>1, DraftStays
<1> QED
  BY <1>3, <1>4, <1>5, <1>6, <1>7, <1>8 DEF PublicationInv

\* Files on their way may be put in the place of others.
LEMMA WayPut ==
  ASSUME NEW files, OnTheWay(files), NEW other, OnTheWay(other), NEW x \in DOMAIN other
  PROVE  OnTheWay(Put(files, x, other[x]))
<1>1. PICK v : v = other[x]
  OBVIOUS
<1>2. x = Index \/ Fits(v, x, cycle.main.files)
  BY <1>1 DEF OnTheWay, AllFit
<1>3. AllFit(Put(files, x, v), cycle.main.files)
  BY <1>2, FitPut DEF OnTheWay
<1> QED
  BY <1>1, <1>3 DEF OnTheWay

LEMMA WayRestrict ==
  ASSUME NEW files, OnTheWay(files), NEW S \in SUBSET DOMAIN files
  PROVE  OnTheWay(Restrict(files, S))
  BY FitRestrict DEF OnTheWay

LEMMA FilesStayOnTheWay ==
  ASSUME ArtifactInv, Carried, ~In("idle"), FilesCarried
  PROVE  /\ \A f : f = tree' => OnTheWay(f)
         /\ \A f : f = proc'.saw => OnTheWay(f)
         /\ archive' # NoArchive => \A f : f = archive'.files => OnTheWay(f)
<1>1. /\ OnTheWay(tree) /\ OnTheWay(proc.saw)
      /\ archive # NoArchive => OnTheWay(archive.files)
  BY DEF Carried
<1>2. ASSUME NEW f, f = tree'
      PROVE  OnTheWay(f)
  <2>1. CASE tree' = tree
    BY <1>1, <1>2, <2>1
  <2>2. CASE \E x \in Present : tree' = Without(x)
    <3>1. PICK x \in Present : tree' = Restrict(tree, Present \ {x})
      BY <2>2 DEF Without
    <3>2. Present \ {x} \in SUBSET DOMAIN tree
      BY DEF Present
    <3>3. OnTheWay(Restrict(tree, Present \ {x}))
      BY <1>1, <3>2, WayRestrict
    <3> QED
      BY <1>2, <3>1, <3>3
  <2>3. CASE archive # NoArchive /\ \E x \in DOMAIN archive.files : tree' = With(x, archive.files[x])
    <3>1. PICK x \in DOMAIN archive.files : tree' = Put(tree, x, archive.files[x])
      BY <2>3 DEF With
    <3>2. OnTheWay(Put(tree, x, archive.files[x]))
      BY <1>1, <2>3, <3>1, WayPut
    <3> QED
      BY <1>2, <3>1, <3>2
  <2>4. CASE \E x \in DOMAIN proc.saw : tree' = With(x, proc.saw[x])
    <3>1. PICK x \in DOMAIN proc.saw : tree' = Put(tree, x, proc.saw[x])
      BY <2>4 DEF With
    <3>2. OnTheWay(Put(tree, x, proc.saw[x]))
      BY <1>1, <3>1, WayPut
    <3> QED
      BY <1>2, <3>1, <3>2
  <2> QED
    BY <2>1, <2>2, <2>3, <2>4 DEF FilesCarried
<1>3. ASSUME NEW f, f = proc'.saw
      PROVE  OnTheWay(f)
  <2>1. CASE proc'.saw = proc.saw
    BY <1>1, <1>3, <2>1
  <2>2. CASE \E x \in Present : proc'.saw = Put(proc.saw, x, tree[x])
    <3>1. PICK x \in DOMAIN tree : proc'.saw = Put(proc.saw, x, tree[x])
      BY <2>2 DEF Present
    <3>2. OnTheWay(Put(proc.saw, x, tree[x]))
      BY <1>1, <3>1, WayPut
    <3> QED
      BY <1>3, <3>1, <3>2
  <2> QED
    BY <2>1, <2>2 DEF FilesCarried
<1>4. ASSUME archive' # NoArchive, NEW f, f = archive'.files
      PROVE  OnTheWay(f)
  BY <1>1, <1>4 DEF FilesCarried
<1> QED
  BY <1>2, <1>3, <1>4

\* What is packed when nobody meddles is what the checkout holds.
LEMMA PackedIsTree ==
  ASSUME ArtifactInv, At("finish"), Is("pack"), ~proc.edited, Present = proc.paths
  PROVE  proc.saw = tree
<1>1. /\ Tree(tree) /\ Tree(proc.saw) /\ DOMAIN proc.saw = proc.paths
  BY DEF ArtifactInv, ArtifactTypes, Attributed, At, AfterRead
<1>2. tree = proc.moment
  BY DEF ArtifactInv, Reading, At, Is
<1>3. \A x \in proc.paths : proc.moment[x] = proc.saw[x]
  BY DEF ArtifactInv, Snapshots, Stood, At, Is
<1>4. DOMAIN proc.saw = DOMAIN tree /\ \A x \in DOMAIN proc.saw : proc.saw[x] = tree[x]
  BY <1>1, <1>2, <1>3 DEF Present
<1> QED
  BY <1>1, <1>4, SameTree

LEMMA ToolKeeps ==
  ASSUME IInv, Tool
  PROVE  IInv'
<1>1. /\ ArtifactInv /\ StageInv /\ PublicationTypes /\ Phased /\ Carried
      /\ cycle.phase \in Working /\ ~In("idle") /\ cycle.phase \notin Staging
  BY DEF IInv, PublicationInv, Tool, In, Working, Staging
<1>2. /\ Command \/ Raise \/ Kill
      /\ UNCHANGED <<promotionVars, main, draft, cycle, jobs, lost, changes>>
  BY DEF Tool
<1>3. ArtifactInv' /\ StageInv' /\ FilesCarried
  BY <1>1, <1>2, ArtifactKeeps, PromotionStutters, FilesMove
<1>4. Moves(cycle.phase) /\ promote' = "idle"
  BY <1>1, <1>2, Stayed DEF Phased, promotionVars
<1>5. /\ cycle.phase = "pack" => proc'.cmd = "pack"
      /\ cycle.phase = "restore" => proc'.cmd = "restore" \/ proc'.step = "idle"
      /\ cycle.phase = "verify" => proc'.cmd = "verify"
  <2>1. ~At("idle")
    BY <1>2 DEF Command, Raise, Kill, Running, At, Ended, CheckState, Load, CheckAgain, Discover,
       Read, Stage, CheckUnchanged, CheckStale, Unlink, Replace, Recheck, Compare, Final,
       Finish, Clear, Rewrite
  <2> QED
    BY <1>1, <1>3, <2>1 DEF Phased, In, Is, FilesCarried
<1>6. OnTheWay(tree)' /\ OnTheWay(proc.saw)' /\ (archive # NoArchive => OnTheWay(archive.files))'
  <2>1. jobs' = jobs /\ cycle' = cycle
    BY <1>2
  <2>2. PICK f : f = tree'
    OBVIOUS
  <2>3. PICK g : g = proc'.saw
    OBVIOUS
  <2>4. PICK h : h = archive'.files
    OBVIOUS
  <2>5. OnTheWay(f) /\ OnTheWay(g) /\ (archive' # NoArchive => OnTheWay(h))
    BY <1>1, <1>3, <2>2, <2>3, <2>4, FilesStayOnTheWay
  <2>6. OnTheWay(f)' /\ OnTheWay(g)' /\ (archive' # NoArchive => OnTheWay(h)')
    BY <2>1, <2>5, WayStays
  <2> QED
    BY <2>2, <2>3, <2>4, <2>6 DEF OnTheWay, AllFit
<1>7. (In("pack") /\ ~cycle.meddled => Whole(tree, cycle.main.topo) /\ ~proc.edited)'
  <2>1. In("pack") => tree' = tree /\ proc'.edited = proc.edited
    BY <1>1, <1>3 DEF FilesCarried, Phased, Is
  <2> QED
    BY <1>1, <1>2, <2>1 DEF Carried, Whole, In
<1>8. (archive # NoArchive /\ ~cycle.meddled => Whole(archive.files, cycle.main.topo))'
  <2>1. CASE archive' = archive
    BY <1>1, <1>2, <2>1 DEF Carried, Whole
  <2>2. CASE /\ At("finish") /\ Present = proc.paths /\ Is("pack") /\ tree' = tree
             /\ archive' = [base |-> base, files |-> proc.saw]
    <3>1. archive'.files = proc.saw
      BY <2>2
    <3>2. In("pack")
      BY <1>1, <2>2 DEF Phased, Working, In, Is, At
    <3>3. ~cycle.meddled => proc.saw = tree /\ Whole(tree, cycle.main.topo)
      BY <1>1, <2>2, <3>2, PackedIsTree DEF Carried
    <3> QED
      BY <1>2, <3>1, <3>3 DEF Whole
  <2> QED
    BY <1>3, <2>1, <2>2 DEF FilesCarried
<1>9. Carried'
  BY <1>6, <1>7, <1>8 DEF Carried
<1>10. base' = base /\ UNCHANGED <<main, draft, jobs, lost, changes>>
  BY <1>2, <1>3 DEF FilesCarried
<1>11. PublicationInv'
  BY <1>1, <1>4, <1>5, <1>9, <1>10, WorkKeeps
<1> QED
  BY <1>3, <1>11 DEF IInv

\* What a command that begins, or a fresh checkout, has seen of the files is nothing.
LEMMA NothingSeen ==
  \A cmd, step : /\ New(cmd, step).cmd = cmd /\ New(cmd, step).step = step
                 /\ New(cmd, step).saw = NoFiles /\ ~New(cmd, step).edited
  BY DEF New

\* A command begins in the checkout as it is.
LEMMA BeginCarries ==
  ASSUME IInv, NEW cmd \in Commands, Begin(cmd), cmd = "restore" => At("idle"),
         NEW phase \in Working, Moves(phase), phase = "pack" => cmd = "pack",
         phase = "restore" => cmd = "restore", phase = "verify" => cmd = "verify",
         cycle'.meddled = cycle.meddled, ~In("idle"),
         phase = "pack" => Whole(tree, cycle.main.topo),
         promote' = "idle", UNCHANGED <<main, draft, jobs, lost, changes>>
  PROVE  ArtifactInv' /\ PublicationInv'
<1>1. /\ ArtifactInv /\ Carried
  BY DEF IInv, PublicationInv
<1>2. /\ proc'.cmd = cmd /\ proc'.step = "state" /\ proc'.saw = NoFiles /\ ~proc'.edited
      /\ tree' = tree /\ base' = base /\ archive' = archive
  BY NothingSeen DEF Begin
<1>3. cycle'.main = cycle.main /\ cycle'.phase = phase
  BY DEF Moves
<1>4. Carried'
  <2>1. OnTheWay(tree)'
    BY <1>1, <1>2, <1>3 DEF Carried, OnTheWay, AllFit, Fits, Recorded
  <2>2. OnTheWay(proc.saw)'
    BY <1>2, NoFilesOK DEF OnTheWay, AllFit
  <2>3. (archive # NoArchive => OnTheWay(archive.files))'
    BY <1>1, <1>2, <1>3 DEF Carried, OnTheWay, AllFit, Fits, Recorded
  <2>4. (In("pack") /\ ~cycle.meddled => Whole(tree, cycle.main.topo) /\ ~proc.edited)'
    BY <1>2, <1>3 DEF In, Whole
  <2>5. (archive # NoArchive /\ ~cycle.meddled => Whole(archive.files, cycle.main.topo))'
    BY <1>1, <1>2, <1>3 DEF Carried, Whole
  <2> QED
    BY <2>1, <2>2, <2>3, <2>4, <2>5 DEF Carried
<1>5. ArtifactInv'
  BY <1>1, BeginKeeps
<1>6. PublicationInv'
  BY <1>2, <1>4, WorkKeeps
<1> QED
  BY <1>5, <1>6

LEMMA RevalidateKeeps ==
  ASSUME IInv, Revalidate
  PROVE  IInv'
<1>1. /\ PublicationTypes /\ Phased /\ Copied /\ cycle.phase = "base" /\ Enter("pack")
      /\ Begin("pack") /\ ScratchRemoved /\ UNCHANGED <<main, draft, jobs, lost, changes>>
  BY DEF IInv, PublicationInv, Revalidate, In
<1>2. "pack" \in Phases /\ "pack" \in Working /\ "pack" \in Commands
  BY DEF Phases, Working, Commands
<1>3. Moves("pack") /\ cycle'.meddled = cycle.meddled
  BY <1>1, <1>2, Entered
<1>4. Whole(tree, cycle.main.topo) /\ ~In("idle") /\ promote' = "idle"
  BY <1>1 DEF Copied, In, ScratchRemoved
<1>5. StageInv'
  BY <1>1, ScratchKeeps
<1>6. ArtifactInv' /\ PublicationInv'
  BY <1>1, <1>2, <1>3, <1>4, BeginCarries
<1> QED
  BY <1>5, <1>6 DEF IInv

LEMMA RestoreKeeps ==
  ASSUME IInv, Restore
  PROVE  IInv'
<1>1. /\ StageInv /\ PublicationTypes /\ Phased /\ cycle.phase = "restore" /\ At("idle")
      /\ Begin("restore") /\ UNCHANGED <<promotionVars, main, draft, cycle, jobs, lost, changes>>
  BY DEF IInv, PublicationInv, Restore, In
<1>2. "restore" \in Working /\ "restore" \in Commands /\ "restore" \notin Staging
  BY DEF Working, Commands, Staging
<1>3. Moves("restore") /\ cycle'.meddled = cycle.meddled
  BY <1>1, Stayed
<1>4. ~In("idle") /\ promote' = "idle"
  BY <1>1, <1>2 DEF Phased, In, promotionVars
<1>5. StageInv'
  BY <1>1, PromotionStutters
<1>6. ArtifactInv' /\ PublicationInv'
  BY <1>1, <1>2, <1>3, <1>4, BeginCarries
<1> QED
  BY <1>5, <1>6 DEF IInv

LEMMA VerifyRestoredKeeps ==
  ASSUME IInv, VerifyRestored
  PROVE  IInv'
<1>1. /\ StageInv /\ PublicationTypes /\ Phased /\ cycle.phase = "restore" /\ Enter("verify")
      /\ Begin("verify") /\ UNCHANGED <<promotionVars, main, draft, jobs, lost, changes>>
  BY DEF IInv, PublicationInv, VerifyRestored, In
<1>2. /\ "verify" \in Working /\ "verify" \in Commands /\ "verify" \in Phases
      /\ "restore" \notin Staging
  BY DEF Working, Commands, Staging, Phases
<1>3. Moves("verify") /\ cycle'.meddled = cycle.meddled
  BY <1>1, <1>2, Entered
<1>4. ~In("idle") /\ promote' = "idle"
  BY <1>1, <1>2 DEF Phased, In, promotionVars
<1>5. StageInv'
  BY <1>1, PromotionStutters
<1>6. ArtifactInv' /\ PublicationInv'
  BY <1>1, <1>2, <1>3, <1>4, BeginCarries
<1> QED
  BY <1>5, <1>6 DEF IInv

LEMMA SecondJobKeeps ==
  ASSUME IInv, SecondJob
  PROVE  IInv'
<1>1. /\ ArtifactInv /\ StageInv /\ PublicationTypes /\ Phased /\ Begun /\ Carried
      /\ cycle.phase = "pack" /\ Enter("restore") /\ Checkout(base)
      /\ UNCHANGED <<archive, edits, promotionVars, main, draft, jobs, lost, changes>>
  BY DEF IInv, PublicationInv, SecondJob, In
<1>2. /\ "restore" \in Working /\ "restore" \in Phases /\ "pack" \notin Staging
  BY DEF Working, Staging, Phases
<1>3. /\ Moves("restore") /\ cycle'.meddled = cycle.meddled /\ cycle'.main = cycle.main
      /\ cycle'.phase = "restore"
  BY <1>1, <1>2, Entered
<1>4. ~In("idle") /\ promote' = "idle"
  BY <1>1, <1>2 DEF Phased, In, promotionVars
<1>5. StageInv'
  BY <1>1, PromotionStutters
<1>6. PICK files : files = base
  OBVIOUS
<1>7. /\ tree' = files /\ strays' = {} /\ base' = files /\ killed' = FALSE
      /\ proc' = [New("pack", "idle") EXCEPT !.moment = files]
      /\ archive' = archive /\ edits' = edits /\ Tree(files) /\ ArtifactTypes
  BY <1>1, <1>6 DEF Checkout, ArtifactInv, ArtifactTypes
<1>8. ArtifactInv'
  BY <1>7, FreshKeeps
<1>9. proc'.step = "idle" /\ proc'.saw = NoFiles
  BY <1>7 DEF New
<1>10. Carried'
  <2>1. AllFit(files, cycle.main.files)
    BY <1>1, <1>4, <1>6, FitItself DEF Begun, Commit
  <2>2. OnTheWay(tree)'
    BY <1>1, <1>3, <1>7, <2>1 DEF OnTheWay, AllFit, Fits, Recorded
  <2>3. OnTheWay(proc.saw)'
    BY <1>9, NoFilesOK DEF OnTheWay, AllFit
  <2>4. (archive # NoArchive => OnTheWay(archive.files))'
    BY <1>1, <1>3, <1>4, <1>7 DEF Carried, OnTheWay, AllFit, Fits, Recorded
  <2>5. (archive # NoArchive /\ ~cycle.meddled => Whole(archive.files, cycle.main.topo))'
    BY <1>1, <1>3, <1>7 DEF Carried, Whole
  <2> QED
    BY <1>3, <2>2, <2>3, <2>4, <2>5 DEF Carried, In
<1>11. PublicationInv'
  BY <1>1, <1>2, <1>3, <1>4, <1>6, <1>7, <1>9, <1>10, WorkKeeps
<1> QED
  BY <1>5, <1>8, <1>11 DEF IInv

LEMMA MeddleKeeps ==
  ASSUME IInv, Meddle
  PROVE  IInv'
<1>1. /\ ArtifactInv /\ StageInv /\ PublicationTypes /\ Phased /\ Carried /\ ArtifactTypes
      /\ Proc(proc) /\ cycle.phase \in Working /\ ~In("idle") /\ cycle.phase \notin Staging
  BY DEF IInv, PublicationInv, ArtifactInv, ArtifactTypes, Meddle, In, Working, Staging
<1>2. /\ Edit /\ cycle' = [cycle EXCEPT !.meddled = @ \/ In("pack")]
      /\ UNCHANGED <<promotionVars, main, draft, jobs, lost, changes>>
      /\ base' = base /\ archive' = archive
  BY DEF Meddle, Edit
<1>3. ArtifactInv' /\ StageInv' /\ promote' = "idle"
  BY <1>1, <1>2, ArtifactKeeps, PromotionStutters DEF Phased, promotionVars
<1>4. /\ Moves(cycle.phase) /\ cycle'.phase = cycle.phase /\ cycle'.main = cycle.main
      /\ cycle'.meddled = (cycle.meddled \/ In("pack"))
  BY <1>1, <1>2 DEF PublicationTypes, Moves
<1>5. /\ proc'.step = proc.step /\ proc'.cmd = proc.cmd /\ proc'.saw = proc.saw
      /\ \/ \E x \in Paths : tree' = With(x, Junk) \/ tree' = Without(x)
         \/ tree' = tree
  BY <1>1, <1>2, EditEffect
<1>6. OnTheWay(tree) /\ OnTheWay(proc.saw)
  BY <1>1 DEF Carried
<1>7. ASSUME NEW f, f = tree'
      PROVE  OnTheWay(f)
  <2>1. CASE \E x \in Paths : tree' = With(x, Junk) \/ tree' = Without(x)
    <3>1. PICK x \in Paths : tree' = With(x, Junk) \/ tree' = Without(x)
      BY <2>1
    <3>2. CASE tree' = With(x, Junk)
      <4>1. AllFit(Put(tree, x, Junk), cycle.main.files)
        BY <1>6, FitPut DEF OnTheWay, Fits
      <4> QED
        BY <1>7, <3>2, <4>1 DEF With, OnTheWay
    <3>3. CASE tree' = Without(x)
      <4>1. Present \ {x} \in SUBSET DOMAIN tree
        BY DEF Present
      <4>2. OnTheWay(Restrict(tree, Present \ {x}))
        BY <1>6, <4>1, WayRestrict
      <4> QED
        BY <1>7, <3>3, <4>2 DEF Without
    <3> QED
      BY <3>1, <3>2, <3>3
  <2>2. CASE tree' = tree
    BY <1>6, <1>7, <2>2
  <2> QED
    BY <1>5, <2>1, <2>2
<1>8. Carried'
  <2>1. OnTheWay(tree)'
    <3>1. PICK f : f = tree'
      OBVIOUS
    <3>2. OnTheWay(f)
      BY <1>7, <3>1
    <3> QED
      BY <1>2, <1>4, <3>1, <3>2 DEF OnTheWay, AllFit, Fits, Recorded
  <2>2. OnTheWay(proc.saw)'
    BY <1>2, <1>4, <1>5, <1>6 DEF OnTheWay, AllFit, Fits, Recorded
  <2>3. (archive # NoArchive => OnTheWay(archive.files))'
    BY <1>1, <1>2, <1>4 DEF Carried, OnTheWay, AllFit, Fits, Recorded
  <2>4. (In("pack") /\ ~cycle.meddled => Whole(tree, cycle.main.topo) /\ ~proc.edited)'
    BY <1>4 DEF In
  <2>5. (archive # NoArchive /\ ~cycle.meddled => Whole(archive.files, cycle.main.topo))'
    BY <1>1, <1>2, <1>4 DEF Carried, Whole
  <2> QED
    BY <2>1, <2>2, <2>3, <2>4, <2>5 DEF Carried
<1>9. /\ cycle.phase = "pack" => proc'.cmd = "pack"
      /\ cycle.phase = "restore" => proc'.cmd = "restore" \/ proc'.step = "idle"
      /\ cycle.phase = "verify" => proc'.cmd = "verify"
  BY <1>1, <1>5 DEF Phased, In, Is, At
<1>10. PublicationInv'
  BY <1>1, <1>2, <1>3, <1>4, <1>8, <1>9, WorkKeeps
<1> QED
  BY <1>3, <1>10 DEF IInv

-----------------------------------------------------------------------------
\* The end of a run
LEMMA RunEndsKeeps ==
  ASSUME IInv, RunEnds, UNCHANGED <<edits, main, jobs, lost, changes>>, Drafted'
  PROVE  IInv'
<1>1. /\ PublicationTypes /\ ArtifactTypes /\ Checkout(NoFiles) /\ archive' = NoArchive
      /\ ScratchRemoved
  BY DEF IInv, PublicationInv, ArtifactInv, RunEnds
<1>2. /\ cycle' = [cycle EXCEPT !.phase = "idle", !.emitted = {}, !.meddled = FALSE,
                                !.main = NoCommit]
      /\ promote' = "idle"
  BY DEF RunEnds, ScratchRemoved
<1>3. /\ cycle'.number = cycle.number /\ cycle'.phase = "idle"
      /\ cycle' \in [number : 1..MaxCycles, phase : Phases, main : {cycle'.main},
                     emitted : {cycle'.emitted}, meddled : BOOLEAN]
  BY <1>1, <1>2 DEF PublicationTypes, Phases
<1>4. /\ tree' = NoFiles /\ strays' = {} /\ base' = NoFiles /\ killed' = FALSE
      /\ proc' = [New("pack", "idle") EXCEPT !.moment = NoFiles]
  BY <1>1 DEF Checkout
<1>5. ArtifactInv'
  BY <1>1, <1>4, NoFilesOK, FreshKeeps
<1>6. StageInv'
  BY <1>1, ScratchKeeps
<1>7. PublicationTypes'
  <2>1. Commit(main)'
    BY <1>1, FitsSame DEF PublicationTypes, Commit
  <2> QED
    BY <1>1, <1>3, <2>1 DEF PublicationTypes
<1>8. proc'.step = "idle" /\ proc'.cmd = "pack"
  BY <1>4 DEF New
<1>9. Phased'
  BY <1>1, <1>2, <1>3, <1>8 DEF Phased, At, Is, In, Staging, Working
<1>10. Begun' /\ Emitted' /\ Assembled' /\ Copied'
  BY <1>3 DEF Begun, Emitted, Assembled, Copied, In, Staging
<1>11. Carried'
  BY <1>1, <1>3 DEF Carried, In
<1> QED
  BY <1>5, <1>6, <1>7, <1>9, <1>10, <1>11 DEF IInv, PublicationInv

LEMMA GiveUpKeeps ==
  ASSUME IInv, GiveUp
  PROVE  IInv'
<1>1. RunEnds /\ UNCHANGED <<edits, main, jobs, lost, changes>> /\ draft' = draft /\ Drafted
  BY DEF IInv, PublicationInv, GiveUp
<1>2. Drafted'
  BY <1>1, DraftStays
<1> QED
  BY <1>1, <1>2, RunEndsKeeps

\* A verification that ends well, if nobody meddles, ends with the artifact's files.
LEMMA VerifiedIsTree ==
  ASSUME ArtifactInv, Is("verify"), At("done"), ~proc.edited
  PROVE  archive # NoArchive /\ tree = archive.files
<1>1. /\ archive # NoArchive /\ Tree(tree) /\ Tree(archive.files) /\ DOMAIN proc.saw = proc.paths
  BY DEF ArtifactInv, ArtifactTypes, Attributed, At, Is, Loaded, AfterRead
<1>2. tree = proc.moment /\ Present = proc.paths
  BY DEF ArtifactInv, Reading, At, Is
<1>3. /\ \A x \in proc.paths : proc.moment[x] = proc.saw[x]
      /\ \A x \in DOMAIN proc.saw : proc.saw[x] = archive.files[x]
      /\ proc.paths = DOMAIN archive.files
  BY DEF ArtifactInv, Snapshots, Stood, At, Is
<1>4. DOMAIN tree = DOMAIN archive.files /\ \A x \in DOMAIN tree : tree[x] = archive.files[x]
  BY <1>1, <1>2, <1>3 DEF Present
<1> QED
  BY <1>1, <1>4, SameTree

LEMMA OpenDraftKeeps ==
  ASSUME IInv, OpenDraft
  PROVE  IInv'
<1>1. /\ ArtifactInv /\ ArtifactTypes /\ PublicationTypes /\ Begun /\ Carried
      /\ cycle.phase = "verify" /\ ~In("idle") /\ Is("verify") /\ At("done") /\ RunEnds
      /\ draft' = [files |-> tree, base |-> cycle.main, number |-> cycle.number,
                   meddled |-> cycle.meddled \/ proc.edited]
      /\ UNCHANGED <<edits, main, jobs, lost, changes>>
  BY DEF IInv, PublicationInv, ArtifactInv, OpenDraft, In
<1>2. Tree(tree) /\ AllFit(tree, cycle.main.files)
  BY <1>1 DEF ArtifactTypes, Carried, OnTheWay
<1>3. ASSUME NEW p \in DOMAIN RowsOf(tree), tree[p].run = cycle.number
      PROVE  tree[p].batch = cycle.main.topo[p]
  <2>1. p \in DOMAIN tree \ {Index} /\ tree[p] # Junk
    BY RowsOfOK
  <2>2. Recorded(tree[p], p) /\ p \in Packages
    BY <1>2, <2>1, PackagePaths DEF AllFit, Fits, Tree
  <2>3. <<cycle.number, p>> \in DOMAIN jobs /\ tree[p].batch = jobs[<<cycle.number, p>>].batch
    BY <1>3, <2>2 DEF Recorded
  <2>4. p \in DOMAIN cycle.main.topo
    BY <1>1, <2>2, <2>3 DEF Begun
  <2> QED
    BY <1>1, <2>3, <2>4 DEF Begun
<1>4. ~cycle.meddled /\ ~proc.edited => Whole(tree, cycle.main.topo)
  BY <1>1, VerifiedIsTree DEF Carried
<1>5. Drafted'
  <2>1. /\ draft'.files = tree /\ draft'.base = cycle.main /\ draft'.number = cycle.number
        /\ ~draft'.meddled => ~cycle.meddled /\ ~proc.edited
    BY <1>1
  <2>2. PICK f, b : f = tree /\ b = cycle.main
    OBVIOUS
  <2>3. AllFit(f, b.files)'
    BY <1>1, <1>2, <2>2, FitsSame
  <2>4. AllFit(draft.files, draft.base.files)'
    BY <2>1, <2>2, <2>3
  <2>5. (\A p \in DOMAIN RowsOf(draft.files) :
           draft.files[p].run = draft.number => draft.files[p].batch = draft.base.topo[p])'
    BY <1>3, <2>1 DEF RowsOf, Restrict
  <2>6. (~draft.meddled => Whole(draft.files, draft.base.topo))'
    BY <1>4, <2>1 DEF Whole
  <2>7. Tree(draft.files)'
    BY <1>2, <2>1
  <2> QED
    BY <2>4, <2>5, <2>6, <2>7 DEF Drafted
<1> QED
  BY <1>1, <1>5, RunEndsKeeps

-----------------------------------------------------------------------------
\* What others do to main and to old runs
LEMMA OthersKeep ==
  ASSUME IInv, UNCHANGED <<artifactVars, promotionVars, cycle, jobs>>,
         lost' = lost \/ In("assemble"), PublicationTypes', Drafted'
  PROVE  IInv'
<1>1. /\ ArtifactInv /\ StageInv /\ Phased /\ Begun /\ Emitted /\ Assembled /\ Copied /\ Carried
  BY DEF IInv, PublicationInv
<1>2. ArtifactInv' /\ StageInv'
  BY <1>1, ArtifactStutters, PromotionStutters
<1>3. /\ tree' = tree /\ strays' = strays /\ base' = base /\ archive' = archive /\ proc' = proc
      /\ staged' = staged /\ stage' = stage /\ promote' = promote /\ cycle' = cycle
      /\ jobs' = jobs
  BY DEF artifactVars, promotionVars
<1>4. Phased' /\ Emitted' /\ Copied'
  BY <1>1, <1>3 DEF Phased, Emitted, Copied, In, At, Is, Present, Whole
<1>5. Begun'
  <2>1. CASE In("idle")
    BY <1>3, <2>1 DEF Begun, In
  <2>2. CASE ~In("idle")
    BY <1>1, <1>3, <2>2, BegunStays
  <2> QED
    BY <2>1, <2>2
<1>6. Assembled'
  <2>1. CASE cycle.phase \in Staging
    <3>1. lost' = lost
      BY <2>1 DEF Staging, In
    <3> QED
      BY <1>1, <1>3, <2>1, <3>1, AssembledStays
  <2>2. CASE cycle.phase \notin Staging
    BY <1>3, <2>2 DEF Assembled
  <2> QED
    BY <2>1, <2>2
<1>7. Carried'
  BY <1>1, <1>3 DEF Carried, In, Whole, OnTheWay, AllFit, Fits, Recorded
<1> QED
  BY <1>2, <1>4, <1>5, <1>6, <1>7 DEF IInv, PublicationInv

LEMMA MergeKeeps ==
  ASSUME IInv, Merge
  PROVE  IInv'
<1>1. /\ PublicationTypes /\ Drafted /\ draft # NoDraft /\ draft' = NoDraft
      /\ main' = [main EXCEPT !.files = draft.files]
      /\ UNCHANGED <<artifactVars, promotionVars, cycle, jobs, lost, changes>>
  BY DEF IInv, PublicationInv, Merge
<1>2. Tree(draft.files) /\ AllRecorded(draft.files)
  BY <1>1, FitRecorded DEF Drafted
<1>3. /\ main' \in [files : {main'.files}, topo : {main'.topo}] /\ main'.files = draft.files
      /\ main'.topo = main.topo
  BY <1>1 DEF PublicationTypes
<1>4. Commit(main)'
  <2>1. AllRecorded(main.files)'
    BY <1>1, <1>2, <1>3 DEF AllRecorded, Recorded
  <2> QED
    BY <1>1, <1>2, <1>3, <2>1 DEF PublicationTypes, Commit, IsPart
<1>5. PublicationTypes'
  BY <1>1, <1>3, <1>4 DEF PublicationTypes
<1>6. Drafted'
  BY <1>1 DEF Drafted
<1> QED
  BY <1>1, <1>5, <1>6, OthersKeep

\* What a commit may leave of a package's registration and row
LEMMA Registered ==
  ASSUME NEW topo, IsPart(topo, Batches)
  PROVE  /\ \A p \in Packages, b \in Batches : IsPart(Put(topo, p, b), Batches)
         /\ \A p : IsPart(Restrict(topo, DOMAIN topo \ {p}), Batches)
  BY DEF IsPart, Put, Restrict

LEMMA LeftFiles ==
  ASSUME NEW files, Tree(files), AllRecorded(files), NEW p
  PROVE  LET left == Restrict(files, DOMAIN files \ {Index, p})
         IN /\ Tree(Published(left)) /\ AllRecorded(Published(left))
            /\ DOMAIN Published(left) \subseteq DOMAIN files \cup {Index}
            /\ \A x \in DOMAIN Published(left) \ {Index} : Published(left)[x] = files[x]
<1> DEFINE S == DOMAIN files \ {Index, p}
           left == Restrict(files, S)
<1>1. S \in SUBSET DOMAIN files
  OBVIOUS
<1> HIDE DEF S
<1>2. Tree(left)
  BY <1>1, RestrictTree
<1>3. /\ DOMAIN left = S /\ \A x \in S : left[x] = files[x]
  BY RestrictOK
<1> HIDE DEF left
<1>4. Tree(Published(left))
  BY <1>2, PathsAreNumbers, PutTree DEF Published
<1>5. DOMAIN Published(left) = S \cup {Index}
  BY <1>3, PutOK DEF Published
<1>6. \A x \in S \ {Index} : Published(left)[x] = files[x]
  BY <1>3, PutOK DEF Published
<1>7. AllRecorded(Published(left))
  BY <1>1, <1>5, <1>6 DEF AllRecorded
<1> QED
  BY <1>1, <1>4, <1>5, <1>6, <1>7 DEF left, S

LEMMA MaintainMain ==
  ASSUME PublicationTypes, Maintain
  PROVE  /\ main' \in [files : {main'.files}, topo : {main'.topo}]
         /\ Tree(main'.files) /\ AllRecorded(main'.files) /\ IsPart(main'.topo, Batches)
         /\ DOMAIN main'.files \subseteq DOMAIN main.files \cup {Index}
         /\ \A x \in DOMAIN main'.files \ {Index} : main'.files[x] = main.files[x]
<1>1. /\ main \in [files : {main.files}, topo : {main.topo}] /\ Tree(main.files)
      /\ AllRecorded(main.files) /\ IsPart(main.topo, Batches)
  BY DEF PublicationTypes, Commit
<1>2. PICK p \in Packages :
         \/ \E b \in Batches : main' = [main EXCEPT !.topo = Put(@, p, b)]
         \/ /\ p \in DOMAIN main.topo /\ DOMAIN main.topo # {p}
            /\ LET topo == Restrict(main.topo, DOMAIN main.topo \ {p})
                   left == Restrict(main.files, DOMAIN main.files \ {Index, p})
               IN main' \in {[files |-> main.files, topo |-> topo],
                             [files |-> Published(left), topo |-> topo]}
  BY DEF Maintain
<1>3. ASSUME NEW b \in Batches, main' = [main EXCEPT !.topo = Put(@, p, b)]
      PROVE  /\ main' \in [files : {main'.files}, topo : {main'.topo}]
             /\ main'.files = main.files /\ main'.topo = Put(main.topo, p, b)
  BY <1>1, <1>3
<1>4. CASE \E b \in Batches : main' = [main EXCEPT !.topo = Put(@, p, b)]
  BY <1>1, <1>3, <1>4, Registered
<1>5. CASE main' = [files |-> main.files, topo |-> Restrict(main.topo, DOMAIN main.topo \ {p})]
  BY <1>1, <1>5, Registered
<1>6. CASE main' = [files |-> Published(Restrict(main.files, DOMAIN main.files \ {Index, p})),
                    topo |-> Restrict(main.topo, DOMAIN main.topo \ {p})]
  <2> DEFINE f == Published(Restrict(main.files, DOMAIN main.files \ {Index, p}))
  <2>1. /\ Tree(f) /\ AllRecorded(f) /\ DOMAIN f \subseteq DOMAIN main.files \cup {Index}
        /\ \A x \in DOMAIN f \ {Index} : f[x] = main.files[x]
    BY <1>1, LeftFiles
  <2> HIDE DEF f
  <2>2. main' = [files |-> f, topo |-> Restrict(main.topo, DOMAIN main.topo \ {p})]
    BY <1>6 DEF f
  <2> QED
    BY <1>1, <2>1, <2>2, Registered
<1> QED
  BY <1>2, <1>4, <1>5, <1>6

LEMMA MaintainKeeps ==
  ASSUME IInv, Maintain
  PROVE  IInv'
<1>1. /\ PublicationTypes /\ Drafted /\ Counted
      /\ UNCHANGED <<artifactVars, promotionVars, draft, cycle, jobs, lost>>
  BY DEF IInv, PublicationInv, Maintain
<1>2. /\ main' \in [files : {main'.files}, topo : {main'.topo}]
      /\ Tree(main'.files) /\ AllRecorded(main'.files) /\ IsPart(main'.topo, Batches)
  BY <1>1, MaintainMain
<1>3. Commit(main)'
  BY <1>1, <1>2 DEF Commit, AllRecorded, Recorded, IsPart
<1>4. changes' \in 0..MaxChanges
  BY <1>1, PublicationConstants DEF PublicationTypes, Counted
<1>5. PublicationTypes'
  BY <1>1, <1>2, <1>3, <1>4 DEF PublicationTypes
<1>6. Drafted'
  BY <1>1, DraftStays
<1> QED
  BY <1>1, <1>5, <1>6, OthersKeep

LEMMA LoseKeeps ==
  ASSUME IInv, Lose
  PROVE  IInv'
<1>1. /\ PublicationTypes /\ Drafted /\ Counted /\ In("assemble")
      /\ UNCHANGED <<artifactVars, promotionVars, main, draft, cycle, jobs>>
  BY DEF IInv, PublicationInv, Lose
<1>2. PICK j \in DOMAIN jobs : lost' = lost \cup {<<j[1], jobs[j].batch>>}
  BY DEF Lose
<1>3. lost' \subseteq (1..MaxCycles) \X Batches
  <2>1. /\ cycle.number \in 1..MaxCycles /\ j[1] \in 1..cycle.number
        /\ jobs[j] \in [batch : Batches, conclusion : Conclusions]
        /\ lost \subseteq (1..MaxCycles) \X Batches
    BY <1>1 DEF PublicationTypes
  <2>2. j[1] \in 1..MaxCycles /\ jobs[j].batch \in Batches
    BY <2>1, PublicationConstants
  <2> QED
    BY <1>2, <2>1, <2>2
<1>4. changes' \in 0..MaxChanges
  BY <1>1, PublicationConstants DEF PublicationTypes, Counted
<1>5. PublicationTypes'
  <2>1. Commit(main)'
    BY <1>1, FitsSame DEF PublicationTypes, Commit
  <2> QED
    BY <1>1, <1>3, <1>4, <2>1 DEF PublicationTypes
<1>6. Drafted'
  BY <1>1, DraftStays
<1> QED
  BY <1>1, <1>5, <1>6, OthersKeep

-----------------------------------------------------------------------------
\* What is staged of the emitted files, the rows on main, and GitHub's jobs
LEMMA CandidatesOK ==
  ASSUME IInv, In("assemble"),
         NEW p \in {f.slug : f \in cycle.emitted} \cup DOMAIN cycle.main.topo
  PROVE  LET row == IF p \in {f.slug : f \in cycle.emitted} THEN RowOf(p)
                    ELSE Synthesized(p, cycle.number, cycle.main.topo[p])
         IN /\ p \in Packages /\ row \in Rows /\ ~row.stamped
            /\ row.job = p => row.batch = cycle.main.topo[p]
<1>1. /\ PublicationTypes /\ Begun /\ Emitted
  BY DEF IInv, PublicationInv
<1>2. CASE p \in {f.slug : f \in cycle.emitted}
  <2>1. \E f \in cycle.emitted : f.slug = p
    BY <1>2
  <2>2. PICK f \in cycle.emitted : f.slug = p /\ RowOf(p) = f.row
    BY <2>1 DEF RowOf
  <2> QED
    BY <1>1, <1>2, <2>2 DEF Emitted
<1>3. CASE p \notin {f.slug : f \in cycle.emitted}
  <2>1. p \in DOMAIN cycle.main.topo
    BY <1>3
  <2>2. p \in Packages /\ cycle.main.topo[p] \in Batches /\ cycle.number \in Nat
    BY <1>1, <2>1 DEF Begun, Commit, IsPart, In, PublicationTypes
  <2>3. LET row == Synthesized(p, cycle.number, cycle.main.topo[p])
        IN row \in Rows /\ ~row.stamped /\ row.batch = cycle.main.topo[p]
    BY <2>2 DEF Synthesized, Honest, Rows, Outcomes, Forms
  <2> QED
    BY <1>3, <2>2, <2>3
<1> QED
  BY <1>2, <1>3

LEMMA CurrentOK ==
  ASSUME IInv, In("assemble")
  PROVE  IsPart(Current(cycle.number, cycle.main.topo), Registrations)
<1>1. /\ PublicationTypes /\ Begun
  BY DEF IInv, PublicationInv
<1>2. ASSUME NEW p \in DOMAIN cycle.main.topo
      PROVE  /\ p \in Packages
             /\ [run |-> cycle.number, batch |-> cycle.main.topo[p],
                 conclusion |-> jobs[<<cycle.number, p>>].conclusion] \in Registrations
  <2>1. /\ p \in Packages /\ cycle.main.topo[p] \in Batches /\ cycle.number \in Nat
        /\ <<cycle.number, p>> \in DOMAIN jobs
    BY <1>1 DEF Begun, Commit, IsPart, In, PublicationTypes
  <2>2. jobs[<<cycle.number, p>>].conclusion \in Conclusions
    BY <1>1, <2>1 DEF PublicationTypes
  <2> QED
    BY <2>1, <2>2 DEF Registrations
<1> QED
  BY <1>2 DEF Current, IsPart

LEMMA PreviousOK ==
  ASSUME IInv, In("assemble"), NEW prev, prev = RowsOf(cycle.main.files)
  PROVE  /\ IsPart(prev, Rows) /\ \A p \in DOMAIN prev : Recorded(prev[p], p)
         /\ IsPart(Historic(prev, cycle.main.topo), Registrations)
<1>1. /\ PublicationTypes /\ Commit(cycle.main)
  BY DEF IInv, PublicationInv, Begun, In
<1>2. ASSUME NEW p \in DOMAIN prev
      PROVE  p \in Packages /\ prev[p] = cycle.main.files[p] /\ Recorded(prev[p], p)
  <2>1. /\ p \in DOMAIN cycle.main.files \ {Index} /\ cycle.main.files[p] # Junk
        /\ prev[p] = cycle.main.files[p]
    BY RowsOfOK
  <2> QED
    BY <1>1, <2>1, PackagePaths DEF Commit, Tree, AllRecorded
<1>3. IsPart(prev, Rows)
  BY <1>2 DEF IsPart, Recorded
<1>4. ASSUME NEW p \in DOMAIN prev, Resolves(p, prev[p], cycle.main.topo)
      PROVE  [run |-> prev[p].run, batch |-> cycle.main.topo[p],
              conclusion |-> jobs[<<prev[p].run, p>>].conclusion] \in Registrations
  <2>1. cycle.main.topo[p] \in Batches /\ <<prev[p].run, p>> \in DOMAIN jobs
    BY <1>1, <1>4 DEF Resolves, Commit, IsPart
  <2>2. prev[p].run \in Nat /\ jobs[<<prev[p].run, p>>].conclusion \in Conclusions
    BY <1>1, <1>2, <2>1 DEF PublicationTypes, Recorded, Rows
  <2> QED
    BY <2>1, <2>2 DEF Registrations
<1>5. IsPart(Historic(prev, cycle.main.topo), Registrations)
  BY <1>2, <1>4 DEF Historic, IsPart
<1> QED
  BY <1>2, <1>3, <1>5

LEMMA AssembleKeeps ==
  ASSUME IInv, Assemble
  PROVE  IInv'
<1> DEFINE topo == cycle.main.topo
           n == cycle.number
           slugs == {f.slug : f \in cycle.emitted}
           prev == RowsOf(tree)
           cand == [p \in slugs \cup DOMAIN topo |->
                      IF p \in slugs THEN RowOf(p) ELSE Synthesized(p, n, topo[p])]
           regs == Current(n, topo)
<1>1. /\ ArtifactInv /\ StageInv /\ PublicationTypes /\ Phased /\ Begun /\ Emitted /\ Carried
      /\ Drafted /\ In("assemble") /\ ~In("idle") /\ cycle.phase \notin Staging
      /\ cycle.phase \notin Working
  BY DEF IInv, PublicationInv, Assemble, In, Staging, Working
<1>2. /\ DOMAIN topo = DOMAIN cand \cup DOMAIN prev
      /\ staged' = [cand |-> cand, prev |-> prev, regs |-> regs,
                    prevregs |-> Historic(prev, topo), blocked |-> Mismatched(cand, regs)]
      /\ cycle' = [cycle EXCEPT !.phase = "promote", !.emitted = {}]
      /\ UNCHANGED <<artifactVars, stage, promote, main, draft, jobs, lost, changes>>
  BY DEF Assemble
<1>3. /\ DOMAIN cand = slugs \cup DOMAIN topo
      /\ \A p \in DOMAIN cand :
           /\ p \in Packages /\ cand[p] \in Rows /\ ~cand[p].stamped
           /\ cand[p].job = p => cand[p].batch = topo[p]
  BY <1>1, CandidatesOK
<1>4. prev = RowsOf(cycle.main.files)
  BY <1>1 DEF Emitted
<1>5. /\ IsPart(prev, Rows) /\ \A p \in DOMAIN prev : Recorded(prev[p], p)
      /\ IsPart(Historic(prev, topo), Registrations)
  BY <1>1, <1>4, PreviousOK
<1>6. IsPart(regs, Registrations) /\ DOMAIN regs = DOMAIN topo
  BY <1>1, CurrentOK DEF Current
<1>7. Mismatched(cand, regs) \subseteq DOMAIN cand
        /\ \A p \in Mismatched(cand, regs) : ~Identified(cand[p], p, regs[p])
  BY DEF Mismatched
<1>8. /\ DOMAIN Historic(prev, topo) \subseteq DOMAIN prev
      /\ \A p \in DOMAIN Historic(prev, topo) :
           /\ Historic(prev, topo)[p].run = prev[p].run
           /\ Historic(prev, topo)[p].batch = prev[p].batch
           /\ Historic(prev, topo)[p].conclusion = prev[p].status
      /\ \A p \in DOMAIN prev \ DOMAIN Historic(prev, topo) :
           prev[p].batch # topo[p] \/ <<prev[p].run, prev[p].batch>> \in lost
  <2>1. /\ DOMAIN Historic(prev, topo) = {p \in DOMAIN prev : Resolves(p, prev[p], topo)}
        /\ \A p \in DOMAIN Historic(prev, topo) :
             /\ Historic(prev, topo)[p].run = prev[p].run
             /\ Historic(prev, topo)[p].batch = topo[p]
             /\ Historic(prev, topo)[p].conclusion = jobs[<<prev[p].run, p>>].conclusion
    BY DEF Historic
  <2>2. \A p \in DOMAIN prev :
          /\ <<prev[p].run, p>> \in DOMAIN jobs /\ p \in DOMAIN topo
          /\ prev[p].status = jobs[<<prev[p].run, p>>].conclusion
          /\ prev[p].batch = jobs[<<prev[p].run, p>>].batch
    BY <1>2, <1>5 DEF Recorded
  <2> HIDE DEF prev, topo
  <2> QED
    BY <2>1, <2>2 DEF Resolves
<1>9. DOMAIN cand = DOMAIN topo /\ DOMAIN prev \subseteq DOMAIN topo
  BY <1>2, <1>3
<1> HIDE DEF cand, prev, regs, slugs
<1>10. /\ staged' \in [cand : {staged'.cand}, prev : {staged'.prev}, regs : {staged'.regs},
                       prevregs : {staged'.prevregs}, blocked : {staged'.blocked}]
       /\ staged'.cand = cand /\ staged'.prev = prev /\ staged'.regs = regs
       /\ staged'.prevregs = Historic(prev, topo) /\ staged'.blocked = Mismatched(cand, regs)
  BY <1>2
<1>11. Moves("promote") /\ cycle'.phase = "promote" /\ cycle'.main = cycle.main
         /\ cycle'.number = cycle.number /\ "promote" \in Phases /\ cycle'.meddled = cycle.meddled
  BY <1>1, <1>2 DEF PublicationTypes, Moves, Phases
<1>12. /\ tree' = tree /\ base' = base /\ archive' = archive /\ proc' = proc
       /\ stage' = stage /\ promote' = promote /\ promote = "idle"
  BY <1>1, <1>2 DEF artifactVars, Phased
<1>13. ArtifactInv'
  BY <1>1, <1>2, ArtifactStutters
<1>14. StageInv'
  <2>1. IsPart(cand, Rows)
    BY <1>3 DEF IsPart
  <2>2. PromotionTypeOK'
    BY <1>1, <1>3, <1>5, <1>6, <1>7, <1>10, <1>12, <2>1 DEF StageInv, PromotionTypeOK
  <2>3. StageRecord(stage)' /\ NothingPublished'
    BY <1>1, <1>12 DEF StageInv, StageRecord, NothingPublished
  <2> QED
    BY <1>12, <2>2, <2>3 DEF StageInv
<1>15. PublicationTypes'
  BY <1>1, <1>2, <1>11, TypesStay
<1>16. Phased'
  BY <1>1, <1>11, <1>12 DEF Phased, Staging, Working, At, Is, In
<1>17. Begun'
  BY <1>1, <1>2, <1>11, <1>12, BegunStays
<1>18. Emitted' /\ Copied'
  BY <1>11 DEF Emitted, Copied, In
<1>19. Carried'
  BY <1>1, <1>2, <1>11, <1>12 DEF Carried, In, Whole, OnTheWay, AllFit, Fits, Recorded
<1>20. Drafted'
  BY <1>1, <1>2, DraftStays
<1>21. Assembled'
  <2>1. Current(cycle.number, cycle.main.topo)' = regs
    BY <1>2, <1>11 DEF Current, regs
  <2>2. RowsOf(cycle.main.files)' = RowsOf(cycle.main.files)
    BY <1>11
  <2>3. jobs' = jobs /\ lost' = lost
    BY <1>2
  <2>4. DOMAIN staged'.cand = DOMAIN cycle'.main.topo
    BY <1>9, <1>10, <1>11
  <2>5. \A p \in DOMAIN staged'.cand :
          /\ ~staged'.cand[p].stamped
          /\ staged'.cand[p].job = p => staged'.cand[p].batch = cycle'.main.topo[p]
    BY <1>3, <1>10, <1>11
  <2>6. staged'.prev = RowsOf(cycle.main.files)' /\ DOMAIN staged'.prev \subseteq DOMAIN cycle'.main.topo
    BY <1>4, <1>9, <1>10, <1>11, <2>2
  <2>7. /\ DOMAIN staged'.prevregs \subseteq DOMAIN staged'.prev
        /\ \A p \in DOMAIN staged'.prevregs :
             /\ staged'.prevregs[p].run = staged'.prev[p].run
             /\ staged'.prevregs[p].batch = staged'.prev[p].batch
             /\ staged'.prevregs[p].conclusion = staged'.prev[p].status
        /\ \A p \in DOMAIN staged'.prev \ DOMAIN staged'.prevregs :
             \/ staged'.prev[p].batch # cycle'.main.topo[p]
             \/ <<staged'.prev[p].run, staged'.prev[p].batch>> \in lost'
    BY <1>8, <1>10, <1>11, <2>3
  <2>8. \A p \in staged'.blocked :
          p \in DOMAIN staged'.cand /\ ~Identified(staged'.cand[p], p, staged'.regs[p])
    BY <1>7, <1>10
  <2> QED
    BY <1>10, <2>1, <2>4, <2>5, <2>6, <2>7, <2>8 DEF Assembled
<1> QED
  BY <1>13, <1>14, <1>15, <1>16, <1>17, <1>18, <1>19, <1>20, <1>21 DEF IInv, PublicationInv

-----------------------------------------------------------------------------
\* A new run: GitHub keeps the jobs that the rows of main and of the draft name.
LEMMA EmissionsOK ==
  ASSUME IsPart(main.topo, Batches), NEW p \in DOMAIN main.topo, NEW n \in Nat, n >= 2,
         NEW e \in Emissions(p, n, main.topo[p])
  PROVE  /\ e.conclusion \in Conclusions
         /\ \A f \in e.files :
              /\ f.slug \in Packages /\ f.row \in Rows /\ ~f.row.stamped /\ f.row.job = p
              /\ f.row.batch = main.topo[p]
<1>1. DOMAIN main.topo \subseteq Packages /\ p \in Packages /\ main.topo[p] \in Batches
  BY DEF IsPart
<1> DEFINE good(outcome) == Honest(p, n, main.topo[p], outcome)
           Mine(row) == row \in Rows /\ ~row.stamped /\ row.job = p /\ row.batch = main.topo[p]
<1>2. \A outcome \in Outcomes : Mine(good(outcome))
  BY <1>1 DEF Honest, Rows, Forms, Outcomes
<1>3. Mine([good("success") EXCEPT !.form = "broken"])
  BY <1>1 DEF Honest, Rows, Forms, Outcomes
<1>4. Mine([good("success") EXCEPT !.run = n - 2])
  <2>1. n - 2 \in Nat
    OBVIOUS
  <2>2. good("success") \in Rows
    BY <1>1 DEF Honest, Rows, Forms, Outcomes
  <2> DEFINE row == [good("success") EXCEPT !.run = n - 2]
  <2>3. row \in Rows
    BY <2>1, <2>2 DEF Rows
  <2>4. ~row.stamped /\ row.job = p /\ row.batch = main.topo[p]
    BY DEF Honest
  <2> QED
    BY <2>3, <2>4
<1>5. \/ \E outcome \in Outcomes : e = [conclusion |-> outcome, files |-> {File(p, good(outcome))}]
      \/ e = [conclusion |-> "failure", files |-> {File(p, good("success"))}]
      \/ e = [conclusion |-> "cancelled", files |-> {}]
      \/ e = [conclusion |-> "success",
              files |-> {File(p, [good("success") EXCEPT !.form = "broken"])}]
      \/ e = [conclusion |-> "success",
              files |-> {File(p, [good("success") EXCEPT !.run = n - 2])}]
      \/ \E q \in DOMAIN main.topo :
           e = [conclusion |-> "success", files |-> {File(q, good("success"))}]
  BY DEF Emissions
<1>6. {"success", "failure", "cancelled"} \subseteq Conclusions /\ Outcomes \subseteq Conclusions
      /\ "success" \in Outcomes
  BY DEF Conclusions, Outcomes
<1> HIDE DEF good, Mine
<1>7. e.conclusion \in Conclusions
  BY <1>5, <1>6
<1>8. \A f \in e.files : f.slug \in Packages /\ Mine(f.row)
  BY <1>1, <1>2, <1>3, <1>4, <1>5, <1>6 DEF File
<1> QED
  BY <1>7, <1>8 DEF Mine

LEMMA JobsKept ==
  ASSUME NEW files, AllRecorded(files), Named(files) \subseteq DOMAIN jobs',
         \A j \in Named(files) : j \in DOMAIN jobs => jobs'[j] = jobs[j]
  PROVE  AllRecorded(files)'
<1>1. ASSUME NEW x \in DOMAIN files \ {Index}, files[x] # Junk
      PROVE  Recorded(files[x], x)'
  <2>1. Recorded(files[x], x)
    BY <1>1 DEF AllRecorded
  <2>2. <<files[x].run, x>> \in Named(files)
    BY <1>1, RowsOfOK DEF Named
  <2>3. <<files[x].run, x>> \in DOMAIN jobs'
        /\ jobs'[<<files[x].run, x>>] = jobs[<<files[x].run, x>>]
    BY <2>1, <2>2 DEF Recorded
  <2> QED
    BY <2>1, <2>3 DEF Recorded
<1> QED
  BY <1>1 DEF AllRecorded

LEMMA FitsKept ==
  ASSUME NEW files, NEW before, AllFit(files, before), AllRecorded(files)'
  PROVE  AllFit(files, before)'
  BY DEF AllFit, Fits, AllRecorded

LEMMA StartJobs ==
  ASSUME IInv, StartCycle
  PROVE  LET n == cycle.number + 1 IN
         /\ n \in 1..MaxCycles /\ n \in Nat /\ n >= 2
         /\ cycle' = [number |-> n, phase |-> "assemble", main |-> main,
                      emitted |-> cycle'.emitted, meddled |-> FALSE]
         /\ \A f \in cycle'.emitted :
              /\ f.slug \in Packages /\ f.row \in Rows /\ ~f.row.stamped
              /\ f.row.job \in DOMAIN main.topo /\ f.row.batch = main.topo[f.row.job]
         /\ DOMAIN jobs' = ({n} \X DOMAIN main.topo) \cup (Remembered \cap DOMAIN jobs)
         /\ \A j \in DOMAIN jobs' : j[1] # n => jobs'[j] = jobs[j]
         /\ \A p \in DOMAIN main.topo :
              /\ jobs'[<<n, p>>].batch = main.topo[p]
              /\ jobs'[<<n, p>>] \in [batch : Batches, conclusion : Conclusions]
<1> DEFINE n == cycle.number + 1
<1>1. PublicationTypes /\ IsPart(main.topo, Batches) /\ cycle.number < MaxCycles
  BY DEF IInv, PublicationInv, PublicationTypes, Commit, StartCycle
<1>2. n \in 1..MaxCycles /\ n \in Nat /\ n >= 2
  BY <1>1, PublicationConstants DEF PublicationTypes
<1>3. PICK ended \in [DOMAIN main.topo ->
                        UNION {Emissions(p, n, main.topo[p]) : p \in DOMAIN main.topo}] :
         /\ \A p \in DOMAIN ended : ended[p] \in Emissions(p, n, main.topo[p])
         /\ cycle' = [number |-> n, phase |-> "assemble", main |-> main,
                      emitted |-> UNION {ended[p].files : p \in DOMAIN ended},
                      meddled |-> FALSE]
         /\ jobs' = [j \in ({n} \X DOMAIN ended) \cup (Remembered \cap DOMAIN jobs) |->
                       IF j[1] # n THEN jobs[j]
                       ELSE [batch |-> main.topo[j[2]], conclusion |-> ended[j[2]].conclusion]]
  BY DEF StartCycle
<1>4. DOMAIN ended = DOMAIN main.topo
  BY <1>3
<1> HIDE DEF n
<1>5. \A p \in DOMAIN main.topo :
        /\ ended[p].conclusion \in Conclusions
        /\ \A f \in ended[p].files :
              /\ f.slug \in Packages /\ f.row \in Rows /\ ~f.row.stamped /\ f.row.job = p
              /\ f.row.batch = main.topo[p]
  BY <1>1, <1>2, <1>3, <1>4, EmissionsOK
<1>6. cycle'.emitted = UNION {ended[p].files : p \in DOMAIN main.topo}
  BY <1>3, <1>4
<1>7. \A f \in cycle'.emitted :
         /\ f.slug \in Packages /\ f.row \in Rows /\ ~f.row.stamped
         /\ f.row.job \in DOMAIN main.topo /\ f.row.batch = main.topo[f.row.job]
  BY <1>5, <1>6
<1>8. /\ DOMAIN jobs' = ({n} \X DOMAIN main.topo) \cup (Remembered \cap DOMAIN jobs)
      /\ \A j \in DOMAIN jobs' :
           jobs'[j] = IF j[1] # n THEN jobs[j]
                      ELSE [batch |-> main.topo[j[2]], conclusion |-> ended[j[2]].conclusion]
  BY <1>3, <1>4
<1>9. ASSUME NEW p \in DOMAIN main.topo
      PROVE  /\ jobs'[<<n, p>>].batch = main.topo[p]
             /\ jobs'[<<n, p>>] \in [batch : Batches, conclusion : Conclusions]
  <2>1. <<n, p>> \in DOMAIN jobs'
    BY <1>8
  <2>2. jobs'[<<n, p>>] = [batch |-> main.topo[p], conclusion |-> ended[p].conclusion]
    BY <1>8, <2>1
  <2> QED
    BY <1>1, <1>5, <2>2 DEF IsPart
<1>10. cycle' = [number |-> n, phase |-> "assemble", main |-> main,
                 emitted |-> cycle'.emitted, meddled |-> FALSE]
  BY <1>3
<1> QED
  BY <1>2, <1>7, <1>8, <1>9, <1>10 DEF n

LEMMA StartCycleKeeps ==
  ASSUME IInv, StartCycle
  PROVE  IInv'
<1> DEFINE n == cycle.number + 1
<1>1. /\ ArtifactTypes /\ StageInv /\ PublicationTypes /\ Phased /\ Drafted /\ Checkout(main.files)
      /\ In("idle") /\ UNCHANGED <<archive, edits, promotionVars, main, draft, lost, changes>>
      /\ Commit(main)
  BY DEF IInv, PublicationInv, ArtifactInv, StartCycle, PublicationTypes
<1>2. /\ n \in 1..MaxCycles /\ n \in Nat /\ n >= 2
      /\ cycle' = [number |-> n, phase |-> "assemble", main |-> main,
                   emitted |-> cycle'.emitted, meddled |-> FALSE]
  BY StartJobs
<1>3. \A f \in cycle'.emitted :
        /\ f.slug \in Packages /\ f.row \in Rows /\ ~f.row.stamped
        /\ f.row.job \in DOMAIN main.topo /\ f.row.batch = main.topo[f.row.job]
  BY StartJobs
<1>4. /\ DOMAIN jobs' = ({n} \X DOMAIN main.topo) \cup (Remembered \cap DOMAIN jobs)
      /\ \A j \in DOMAIN jobs' : j[1] # n => jobs'[j] = jobs[j]
  BY StartJobs
<1>5. \A p \in DOMAIN main.topo :
        /\ jobs'[<<n, p>>].batch = main.topo[p]
        /\ jobs'[<<n, p>>] \in [batch : Batches, conclusion : Conclusions]
  BY StartJobs
<1>6. \A j \in DOMAIN jobs :
        /\ j = <<j[1], j[2]>> /\ j[1] \in 1..cycle.number /\ j[2] \in Packages
        /\ jobs[j] \in [batch : Batches, conclusion : Conclusions] /\ j[1] # n
  BY <1>1 DEF PublicationTypes
<1> HIDE DEF n
<1>7. ASSUME NEW files, AllRecorded(files), Named(files) \subseteq Remembered
      PROVE  AllRecorded(files)'
  <2>1. ASSUME NEW p \in DOMAIN RowsOf(files)
        PROVE  <<files[p].run, p>> \in DOMAIN jobs
    <3>1. p \in DOMAIN files \ {Index} /\ files[p] # Junk
      BY RowsOfOK
    <3> QED
      BY <1>7, <3>1 DEF AllRecorded, Recorded
  <2>2. Named(files) \subseteq DOMAIN jobs
    BY <2>1 DEF Named
  <2> QED
    BY <1>4, <1>6, <1>7, <2>2, JobsKept
<1>8. AllRecorded(main.files)'
  <2>1. PICK f : f = main.files
    OBVIOUS
  <2>2. AllRecorded(f) /\ Named(f) \subseteq Remembered
    BY <1>1, <2>1 DEF Commit, Remembered
  <2>3. AllRecorded(f)'
    BY <1>7, <2>2
  <2> QED
    BY <1>1, <2>1, <2>3
<1>9. Commit(main)'
  BY <1>1, <1>8 DEF Commit
<1>10. /\ cycle'.number = n /\ cycle'.phase = "assemble" /\ cycle'.main = main
       /\ cycle' \in [number : 1..MaxCycles, phase : Phases, main : {cycle'.main},
                      emitted : {cycle'.emitted}, meddled : BOOLEAN]
  <2>1. PICK e : e = cycle'.emitted
    OBVIOUS
  <2>2. cycle' = [number |-> n, phase |-> "assemble", main |-> main, emitted |-> e,
                  meddled |-> FALSE]
    BY <1>2, <2>1
  <2> QED
    BY <1>2, <2>2 DEF Phases
<1>11. PICK files : files = main.files
  OBVIOUS
<1>12. /\ tree' = files /\ strays' = {} /\ base' = files /\ killed' = FALSE
       /\ proc' = [New("pack", "idle") EXCEPT !.moment = files]
       /\ archive' = archive /\ edits' = edits /\ Tree(files)
  BY <1>1, <1>11 DEF Checkout, Commit
<1>13. ArtifactInv'
  BY <1>1, <1>12, FreshKeeps
<1>14. StageInv'
  BY <1>1, PromotionStutters
<1>15. PublicationTypes'
  <2>1. ASSUME NEW j \in DOMAIN jobs'
        PROVE  /\ j = <<j[1], j[2]>> /\ j[1] \in 1..cycle'.number /\ j[2] \in Packages
               /\ jobs'[j] \in [batch : Batches, conclusion : Conclusions]
    <3>1. CASE j \in {n} \X DOMAIN main.topo
      <4>1. PICK p \in DOMAIN main.topo : j = <<n, p>>
        BY <3>1
      <4> QED
        BY <1>1, <1>2, <1>5, <1>10, <4>1 DEF Commit, IsPart
    <3>2. CASE j \in DOMAIN jobs
      <4>1. /\ j = <<j[1], j[2]>> /\ j[1] \in 1..cycle.number /\ j[2] \in Packages
            /\ jobs[j] \in [batch : Batches, conclusion : Conclusions] /\ j[1] # n
        BY <1>6, <3>2
      <4>2. cycle.number \in 1..MaxCycles /\ n = cycle.number + 1
        BY <1>1 DEF PublicationTypes, n
      <4> QED
        BY <1>4, <1>10, <2>1, <4>1, <4>2, PublicationConstants
    <3> QED
      BY <1>4, <2>1, <3>1, <3>2
  <2> QED
    BY <1>1, <1>9, <1>10, <2>1 DEF PublicationTypes
<1>16. proc'.step = "idle" /\ proc'.cmd = "pack" /\ proc'.saw = NoFiles
  BY <1>12 DEF New
<1>17. promote' = "idle" /\ archive' = NoArchive
  BY <1>1, <1>12 DEF Phased, In, Staging, Working, promotionVars
<1>18. Phased'
  BY <1>10, <1>16, <1>17 DEF Phased, Staging, Working, At, Is, In
<1>19. Begun'
  <2>1. DOMAIN main.topo = {p \in Packages : <<n, p>> \in DOMAIN jobs'}
    <3>1. DOMAIN main.topo \subseteq Packages
      BY <1>1 DEF Commit, IsPart
    <3>2. \A p \in DOMAIN main.topo : <<n, p>> \in DOMAIN jobs'
      BY <1>4
    <3>3. \A p : <<n, p>> \in DOMAIN jobs' => p \in DOMAIN main.topo
      BY <1>4, <1>6
    <3> QED
      BY <3>1, <3>2, <3>3
  <2>2. Commit(cycle.main)'
    BY <1>1, <1>9, <1>10 DEF Commit, AllRecorded
  <2> QED
    BY <1>1, <1>5, <1>10, <1>11, <1>12, <2>1, <2>2 DEF Begun
<1>20. Emitted'
  BY <1>3, <1>10, <1>11, <1>12 DEF Emitted
<1>21. Assembled' /\ Copied'
  BY <1>10 DEF Assembled, Copied, In, Staging
<1>22. Carried'
  <2>1. OnTheWay(tree)'
    <3>1. AllFit(main.files, main.files)
      BY <1>1, FitItself DEF Commit
    <3>2. AllFit(files, files)'
      BY <1>1, <1>8, <1>11, <3>1, FitsKept
    <3> QED
      BY <1>10, <1>11, <1>12, <3>2 DEF OnTheWay
  <2>2. OnTheWay(proc.saw)'
    BY <1>16, NoFilesOK DEF OnTheWay, AllFit
  <2> QED
    BY <1>10, <1>17, <2>1, <2>2 DEF Carried, In
<1>23. Drafted'
  <2>1. CASE draft = NoDraft
    BY <1>1, <2>1 DEF Drafted
  <2>2. CASE draft # NoDraft
    <3>1. PICK f, b : f = draft.files /\ b = draft.base.files
      OBVIOUS
    <3>2. AllFit(f, b) /\ AllRecorded(f) /\ Named(f) \subseteq Remembered
      BY <1>1, <2>2, <3>1, FitRecorded DEF Drafted, Remembered
    <3>3. AllFit(f, b)'
      BY <1>7, <3>2, FitsKept
    <3>4. AllFit(draft.files, draft.base.files)'
      BY <1>1, <3>1, <3>3
    <3> QED
      BY <1>1, <2>2, <3>4 DEF Drafted
  <2> QED
    BY <2>1, <2>2
<1> QED
  BY <1>13, <1>14, <1>15, <1>18, <1>19, <1>20, <1>21, <1>22, <1>23 DEF IInv, PublicationInv

-----------------------------------------------------------------------------
\* At first main has a row of the first run for every package.
LEMMA InitArtifact ==
  ASSUME Init
  PROVE  ArtifactInv
<1>1. /\ tree = NoFiles /\ strays = {} /\ base = NoFiles /\ archive = NoArchive
      /\ proc = New("pack", "idle") /\ killed = FALSE /\ edits = 0
  BY DEF Init
<1>2. /\ Proc(proc) /\ proc.cmd = "pack" /\ proc.step = "idle" /\ proc.paths = {}
      /\ proc.saw = NoFiles /\ proc.same = {} /\ proc.moment = NoFiles /\ ~proc.edited
  BY <1>1, NewEffect
<1>3. ArtifactTypes
  <2>1. 0 \in 0..MaxEdits
    BY ArtifactConstants
  <2>2. proc.cmd \in Commands /\ proc.step \in Steps /\ proc.paths \subseteq Paths
    BY <1>2 DEF Commands, Steps, Ended
  <2>3. Tree(tree) /\ Tree(base) /\ Tree(proc.saw) /\ Tree(proc.moment)
    BY <1>1, <1>2, NoFilesOK
  <2>4. strays \subseteq Temporaries \cup Foreign /\ killed \in BOOLEAN /\ edits \in 0..MaxEdits
    BY <1>1, <2>1
  <2> QED
    BY <1>1, <1>2, <2>2, <2>3, <2>4 DEF ArtifactTypes
<1>4. Attributed
  BY <1>2, NoFilesOK DEF Attributed, At, Is, RestoreOnly, Before, AfterRead, Loaded, Trying,
     RollingBack
<1>5. Snapshots
  BY <1>2, NoFilesOK DEF Snapshots, At, Is
<1>6. Reading
  BY <1>1, <1>2, NoFilesOK DEF Reading, At, Is, Present
<1>7. Restoring /\ Untouched /\ Temporary
  BY <1>1, <1>2 DEF Restoring, Untouched, Temporary, Is
<1> QED
  BY <1>3, <1>4, <1>5, <1>6, <1>7 DEF ArtifactInv

LEMMA InitStage ==
  ASSUME Init
  PROVE  StageInv /\ promote = "idle"
<1>1. staged = NothingStaged /\ stage = EmptyStage /\ promote = "idle"
  BY DEF Init, PromotionInit
<1>2. PromotionTypeOK
  BY <1>1 DEF PromotionTypeOK, NothingStaged, EmptyStage, NoRows, IsPart, IsFile
<1>3. StageRecord(stage) /\ NothingPublished
  BY <1>1, StageRecords DEF NothingPublished, EmptyStage
<1> QED
  BY <1>1, <1>2, <1>3 DEF StageInv

LEMMA InitTypes ==
  ASSUME Init
  PROVE  PublicationTypes
<1>1. PICK b \in Batches :
        /\ main = [files |-> Published([p \in Packages |-> SeedRow(p, b)]),
                   topo |-> [p \in Packages |-> b]]
        /\ jobs = [j \in {1} \X Packages |-> [batch |-> b, conclusion |-> "success"]]
        /\ lost = {} /\ changes = 0
        /\ cycle = [number |-> 1, phase |-> "idle", main |-> NoCommit, emitted |-> {},
                    meddled |-> FALSE]
  BY DEF Init
<1> DEFINE rows == [p \in Packages |-> SeedRow(p, b)]
<1>2. DOMAIN rows = Packages /\ Tree(rows) /\ \A p \in Packages : rows[p] = SeedRow(p, b)
  BY PackagePaths DEF Tree
<1>3. main.files = Published(rows) /\ main.topo = [p \in Packages |-> b]
  BY <1>1
<1> HIDE DEF rows
<1>4. /\ Tree(Published(rows)) /\ DOMAIN Published(rows) = Packages \cup {Index}
      /\ \A p \in Packages : Published(rows)[p] = SeedRow(p, b)
  <2>1. Tree(Published(rows))
    BY <1>2, PathsAreNumbers, PutTree DEF Published
  <2>2. DOMAIN Published(rows) = Packages \cup {Index}
    BY <1>2, PutOK DEF Published
  <2>3. \A p \in Packages : Published(rows)[p] = rows[p]
    BY <1>2, PackagePaths, PutOK DEF Published
  <2> QED
    BY <1>2, <2>1, <2>2, <2>3
<1>5. ASSUME NEW p \in Packages
      PROVE  Recorded(SeedRow(p, b), p)
  <2>1. /\ <<1, p>> \in DOMAIN jobs
        /\ jobs[<<1, p>>] = [batch |-> b, conclusion |-> "success"]
    BY <1>1
  <2>2. SeedRow(p, b) \in Rows
    BY DEF SeedRow, Rows, Outcomes, Forms
  <2> QED
    BY <2>1, <2>2 DEF SeedRow, Recorded
<1>6. Commit(main)
  BY <1>3, <1>4, <1>5 DEF Commit, AllRecorded, IsPart
<1>7. /\ 1 \in 1..MaxCycles /\ 0 \in 0..MaxChanges
  BY PublicationConstants
<1>8. \A j \in DOMAIN jobs :
         /\ j = <<j[1], j[2]>> /\ j[1] \in 1..cycle.number /\ j[2] \in Packages
         /\ jobs[j] \in [batch : Batches, conclusion : Conclusions]
  <2>1. ASSUME NEW j \in DOMAIN jobs
        PROVE  /\ j = <<j[1], j[2]>> /\ j[1] = 1 /\ j[2] \in Packages
               /\ jobs[j] = [batch |-> b, conclusion |-> "success"]
    BY <1>1, <2>1
  <2>2. cycle.number = 1 /\ [batch |-> b, conclusion |-> "success"] \in [batch : Batches, conclusion : Conclusions]
    BY <1>1 DEF Conclusions, Outcomes
  <2> QED
    BY <2>1, <2>2
<1>9. /\ cycle \in [number : 1..MaxCycles, phase : Phases, main : {cycle.main},
                    emitted : {cycle.emitted}, meddled : BOOLEAN]
      /\ main \in [files : {main.files}, topo : {main.topo}]
  BY <1>1, <1>7 DEF Phases
<1> QED
  BY <1>1, <1>6, <1>7, <1>8, <1>9 DEF PublicationTypes

LEMMA InitIInv ==
  ASSUME Init
  PROVE  IInv
<1>1. ArtifactInv /\ StageInv /\ PublicationTypes /\ promote = "idle"
  BY InitArtifact, InitStage, InitTypes
<1>2. /\ cycle.phase = "idle" /\ archive = NoArchive /\ draft = NoDraft
      /\ proc.step = "idle" /\ proc.cmd = "pack"
  BY NewEffect DEF Init
<1>3. Phased
  BY <1>1, <1>2 DEF Phased, At, Is, In, Staging, Working
<1>4. Begun /\ Emitted /\ Assembled /\ Copied
  BY <1>2 DEF Begun, Emitted, Assembled, Copied, In, Staging
<1>5. Carried /\ Drafted
  BY <1>2 DEF Carried, Drafted, In
<1> QED
  BY <1>1, <1>3, <1>4, <1>5 DEF IInv, PublicationInv

LEMMA NextIInv ==
  ASSUME IInv, [Next]_vars
  PROVE  IInv'
<1>1. CASE UNCHANGED vars
  <2>1. /\ UNCHANGED <<artifactVars, promotionVars, cycle, jobs>> /\ lost' = lost
        /\ draft' = draft /\ main' = main /\ changes' = changes
    BY <1>1 DEF vars
  <2>2. /\ PublicationTypes /\ Drafted
    BY DEF IInv, PublicationInv
  <2>3. PublicationTypes' /\ Drafted'
    BY <2>1, <2>2, Stayed, TypesStay, DraftStays
  <2> QED
    BY <2>1, <2>3, OthersKeep
<1>2. CASE Next
  BY <1>2, StartCycleKeeps, AssembleKeeps, PromoteKeeps, DeleteRowsKeeps, CopyRowKeeps,
     CopyIndexKeeps, RevalidateKeeps, ToolKeeps, SecondJobKeeps, RestoreKeeps,
     VerifyRestoredKeeps, OpenDraftKeeps, GiveUpKeeps, MeddleKeeps, MergeKeeps, MaintainKeeps,
     LoseKeeps DEF Next
<1> QED
  BY <1>1, <1>2

-----------------------------------------------------------------------------
\* What the invariant says
LEMMA IndexListed ==
  ASSUME StageInv
  PROVE  IndexListsRows
  BY DEF StageInv, NothingPublished, IndexListsRows, PromotionTypeOK

\* A row of a draft that nobody has meddled with
LEMMA DraftRows ==
  ASSUME IInv, Intact, NEW p \in DOMAIN draft.files \ {Index}
  PROVE  /\ Recorded(draft.files[p], p)
         /\ draft.files[p].run = draft.number => draft.files[p].batch = draft.base.topo[p]
<1>1. /\ AllFit(draft.files, draft.base.files) /\ Whole(draft.files, draft.base.topo)
      /\ \A q \in DOMAIN RowsOf(draft.files) :
           draft.files[q].run = draft.number => draft.files[q].batch = draft.base.topo[q]
  BY DEF IInv, PublicationInv, Drafted, Intact
<1>2. draft.files[p] # Junk
  BY <1>1 DEF Whole
<1>3. p \in DOMAIN RowsOf(draft.files)
  BY <1>2, RowsOfOK
<1>4. Recorded(draft.files[p], p)
  BY <1>1, <1>2 DEF AllFit, Fits
<1> QED
  BY <1>1, <1>3, <1>4

LEMMA Truthful ==
  ASSUME IInv
  PROVE  RowsTruthful
<1>1. ASSUME Intact, NEW p \in DOMAIN draft.files \ {Index}
      PROVE  LET row == draft.files[p] IN
             /\ row.job = p /\ row.form # "broken" /\ row.stamped
             /\ <<row.run, p>> \in DOMAIN jobs => row.status = jobs[<<row.run, p>>].conclusion
             /\ row.run = draft.number => row.batch = draft.base.topo[p]
  BY <1>1, DraftRows DEF Recorded
<1> QED
  BY <1>1 DEF RowsTruthful

LEMMA TypesOK ==
  ASSUME IInv
  PROVE  TypeOK
<1>1. /\ ArtifactTypes /\ Attributed /\ StageInv /\ PublicationTypes
  BY DEF IInv, ArtifactInv, PublicationInv
<1>2. ArtifactTypeOK
  BY <1>1 DEF ArtifactTypes, Attributed, ArtifactTypeOK, Tree
<1>3. PromotionTypeOK
  BY <1>1 DEF StageInv
<1>4. /\ IsPart(main.topo, Batches) /\ DOMAIN main.files \subseteq Paths
      /\ cycle.number \in 1..MaxCycles /\ cycle.phase \in Phases
      /\ lost \subseteq (1..MaxCycles) \X Batches /\ changes \in 0..MaxChanges
  BY <1>1 DEF PublicationTypes, Commit, Tree
<1>5. ASSUME NEW j \in DOMAIN jobs
      PROVE  j[1] \in 1..MaxCycles /\ j[2] \in Packages
  <2>1. j[1] \in 1..cycle.number /\ j[2] \in Packages
    BY <1>1 DEF PublicationTypes
  <2> QED
    BY <1>4, <2>1, PublicationConstants
<1> QED
  BY <1>2, <1>3, <1>4, <1>5 DEF TypeOK

LEMMA WholePublished ==
  ASSUME IInv
  PROVE  PublishedWhole
<1>1. Intact => Whole(draft.files, draft.base.topo)
  BY DEF IInv, PublicationInv, Drafted, Intact
<1> QED
  BY <1>1, TypesOK DEF PublishedWhole, Whole

LEMMA Caused ==
  ASSUME IInv
  PROVE  BlockedWithCause
<1>1. SUFFICES ASSUME promote = "blocked"
               PROVE  \E p \in DOMAIN staged.cand :
            /\ staged.cand[p].form # "strict" \/ staged.cand[p].job # p
                 \/ staged.cand[p].run # cycle.number
                 \/ staged.cand[p].status # jobs[<<cycle.number, p>>].conclusion
            /\ \/ p \notin DOMAIN staged.prev
               \/ staged.prev[p].batch # cycle.main.topo[p]
               \/ <<staged.prev[p].run, staged.prev[p].batch>> \in lost
  BY DEF BlockedWithCause
<1>2. /\ StageInv /\ PublicationTypes /\ Phased /\ Begun /\ Assembled /\ PromotionTypeOK
  BY DEF IInv, StageInv, PublicationInv
<1>3. Blocked # {} /\ cycle.phase \in Staging /\ ~In("idle")
  BY <1>1, <1>2 DEF StageInv, Phased, Staging, In
<1>4. PICK p \in Blocked : TRUE
  BY <1>3
<1>5. /\ p \in DOMAIN staged.cand /\ p \in DOMAIN cycle.main.topo
      /\ p \notin Promotable /\ p \notin Retainable
  BY <1>2, <1>3, <1>4 DEF Blocked, Assembled
<1>6. /\ staged.regs[p].run = cycle.number /\ staged.regs[p].batch = cycle.main.topo[p]
      /\ staged.regs[p].conclusion = jobs[<<cycle.number, p>>].conclusion
  BY <1>2, <1>3, <1>5 DEF Assembled, Current
<1>7. /\ ~staged.cand[p].stamped
      /\ staged.cand[p].job = p => staged.cand[p].batch = cycle.main.topo[p]
      /\ p \in staged.blocked => ~Identified(staged.cand[p], p, staged.regs[p])
  BY <1>2, <1>3, <1>5 DEF Assembled
<1>8. \/ staged.cand[p].form # "strict" \/ staged.cand[p].job # p
      \/ staged.cand[p].run # cycle.number
      \/ staged.cand[p].status # jobs[<<cycle.number, p>>].conclusion
  BY <1>5, <1>6, <1>7 DEF Promotable, Valid, Identified, Conclusive
<1>9. ASSUME p \in DOMAIN staged.prev, p \in DOMAIN staged.prevregs
      PROVE  FALSE
  <2>1. p \in DOMAIN RowsOf(cycle.main.files) /\ staged.prev[p] = cycle.main.files[p]
    BY <1>2, <1>3, <1>9, RowsOfOK DEF Assembled
  <2>2. p \in DOMAIN cycle.main.files \ {Index} /\ cycle.main.files[p] # Junk
    BY <2>1, OneRow
  <2>3. Recorded(staged.prev[p], p)
    BY <1>2, <1>3, <2>1, <2>2 DEF Begun, Commit, AllRecorded
  <2>4. staged.prev[p].form \in {"strict", "compat"}
    BY <2>3 DEF Recorded, Rows, Forms
  <2>5. /\ staged.prevregs[p].run = staged.prev[p].run
        /\ staged.prevregs[p].batch = staged.prev[p].batch
        /\ staged.prevregs[p].conclusion = staged.prev[p].status
    BY <1>2, <1>3, <1>9 DEF Assembled
  <2>6. Valid(staged.prev[p], p, staged.prevregs[p], "previous")
    BY <2>3, <2>4, <2>5 DEF Valid, Identified, Conclusive, Recorded
  <2> QED
    BY <1>5, <1>9, <2>6 DEF Retainable
<1>10. \/ p \notin DOMAIN staged.prev
       \/ staged.prev[p].batch # cycle.main.topo[p]
       \/ <<staged.prev[p].run, staged.prev[p].batch>> \in lost
  BY <1>2, <1>3, <1>9 DEF Assembled
<1> QED
  BY <1>5, <1>8, <1>10

\* A step on main
LEMMA MainSteps ==
  ASSUME IInv, [Next]_vars, NEW p \in DOMAIN RowsOf(main.files) \cap DOMAIN RowsOf(main'.files)
  PROVE  main'.files[p].run >= main.files[p].run
<1>1. /\ PublicationTypes /\ Drafted /\ AllRecorded(main.files)
  BY DEF IInv, PublicationInv, PublicationTypes, Commit
<1>2. p \in DOMAIN main.files \ {Index} /\ main.files[p] # Junk
  BY RowsOfOK
<1>3. main.files[p].run \in Nat
  BY <1>1, <1>2, RecordedRows DEF AllRecorded
<1>4. CASE Merge
  <2>1. /\ main' = [main EXCEPT !.files = draft.files] /\ main.files = draft.base.files
        /\ AllFit(draft.files, draft.base.files)
    BY <1>1, <1>4 DEF Merge, Drafted
  <2>2. main'.files = draft.files
    BY <1>1, <2>1 DEF PublicationTypes
  <2>3. p \in DOMAIN draft.files \ {Index} /\ draft.files[p] # Junk
    BY <2>2, RowsOfOK
  <2> QED
    BY <2>1, <2>2, <2>3 DEF AllFit, Fits
<1>5. CASE Maintain
  <2>1. p \in DOMAIN main'.files \ {Index}
    BY RowsOfOK
  <2>2. main'.files[p] = main.files[p]
    BY <1>1, <1>5, <2>1, MaintainMain
  <2> QED
    BY <1>3, <2>2
<1>6. CASE main' = main
  BY <1>3, <1>6
<1> QED
  BY <1>4, <1>5, <1>6 DEF Next, vars, StartCycle, Assemble, Promote, DeleteRows, CopyRow,
     CopyIndex, Revalidate, Tool, SecondJob, Restore, VerifyRestored, OpenDraft, GiveUp, Meddle,
     Lose

-----------------------------------------------------------------------------
\* The artifact's commands within the summary workflow implement FileTransfer.
LEMMA NextFlags ==
  ASSUME IInv, FlagsOK, [Next]_vars
  PROVE  FlagsOK'
<1>1. ArtifactInv
  BY DEF IInv
<1>2. CASE proc' = proc
  BY <1>2 DEF FlagsOK, At, Is
<1>3. CASE Command \/ Raise \/ Kill \/ Edit
  BY <1>1, <1>3, CommandFlags, BefallsFlags
<1>4. CASE \E cmd, step, files :
             proc' = New(cmd, step) \/ proc' = [New(cmd, step) EXCEPT !.moment = files]
  BY <1>4, FreshFlags
<1>5. \/ proc' = proc \/ Command \/ Raise \/ Kill \/ Edit
      \/ \E cmd, step, files :
           proc' = New(cmd, step) \/ proc' = [New(cmd, step) EXCEPT !.moment = files]
  <2>1. CASE UNCHANGED vars
    BY <2>1 DEF vars, artifactVars
  <2>2. CASE StartCycle \/ SecondJob \/ OpenDraft \/ GiveUp
    <3>1. \E files : Checkout(files)
      BY <2>2 DEF StartCycle, SecondJob, OpenDraft, GiveUp, RunEnds
    <3> QED
      BY <3>1 DEF Checkout
  <2>3. CASE Revalidate \/ Restore \/ VerifyRestored
    BY <2>3 DEF Revalidate, Restore, VerifyRestored, Begin
  <2>4. CASE Tool \/ Meddle
    BY <2>4 DEF Tool, Meddle
  <2>5. CASE Assemble \/ Promote \/ DeleteRows \/ CopyRow \/ CopyIndex \/ Merge \/ Maintain \/ Lose
    BY <2>5 DEF Assemble, Promote, DeleteRows, CopyRow, CopyIndex, Merge, Maintain, Lose,
       artifactVars
  <2> QED
    BY <2>1, <2>2, <2>3, <2>4, <2>5 DEF Next
<1> QED
  BY <1>2, <1>3, <1>4, <1>5

LEMMA NextPromised ==
  ASSUME IInv, IInv', FlagsOK, FlagsOK', [Next]_vars
  PROVE  Promised
<1>1. ArtifactInv /\ ArtifactInv' /\ Phased
  BY DEF IInv, PublicationInv
<1>2. CASE UNCHANGED vars \/ Assemble \/ Promote \/ Merge \/ Maintain \/ Lose
  <2>1. UNCHANGED artifactVars
    BY <1>2 DEF vars, Assemble, Promote, Merge, Maintain, Lose
  <2> QED
    BY <2>1, StutterPromised
<1>3. CASE StartCycle \/ SecondJob \/ OpenDraft \/ GiveUp
  <2>1. \E files : Checkout(files)
    BY <1>3 DEF StartCycle, SecondJob, OpenDraft, GiveUp, RunEnds
  <2>2. proc'.step = "idle"
    <3>1. PICK files : proc' = [New("pack", "idle") EXCEPT !.moment = files]
      BY <2>1 DEF Checkout
    <3>2. Proc(New("pack", "idle")) /\ New("pack", "idle").step = "idle"
      BY NewEffect
    <3> QED
      BY <3>1, <3>2 DEF Proc
  <2>3. ~Running /\ (archive' = archive \/ archive' = NoArchive)
    BY <1>3 DEF StartCycle, SecondJob, OpenDraft, GiveUp, RunEnds, Running, Ended, At
  <2> QED
    BY <2>2, <2>3, PreparesPromised
<1>4. CASE DeleteRows \/ CopyRow \/ CopyIndex
  <2>1. At("idle") /\ proc' = proc /\ archive' = archive
    BY <1>1, <1>4 DEF Phased, Working, In, DeleteRows, CopyRow, CopyIndex
  <2>2. ~Running /\ proc'.step = "idle"
    BY <2>1 DEF Running, Ended, At
  <2> QED
    BY <2>1, <2>2, PreparesPromised
<1>5. CASE Revalidate \/ Restore \/ VerifyRestored
  <2>1. \E cmd \in Commands : Begin(cmd)
    BY <1>5 DEF Revalidate, Restore, VerifyRestored, Commands
  <2> QED
    BY <1>1, <2>1, BeginPromised
<1>6. CASE Tool \/ Meddle
  <2>1. Command \/ Raise \/ Kill \/ Edit
    BY <1>6 DEF Tool, Meddle
  <2> QED
    BY <1>1, <2>1, CommandPromised, RaisePromised, KillPromised, EditPromised
<1> QED
  BY <1>2, <1>3, <1>4, <1>5, <1>6 DEF Next

LEMMA InitPromised ==
  ASSUME Init
  PROVE  FlagsOK /\ Transfer!TransferInit
<1>1. /\ proc = New("pack", "idle") /\ archive = NoArchive
  BY DEF Init
<1>2. /\ proc.cmd = "pack" /\ proc.step = "idle" /\ proc.edited = FALSE
      /\ proc.committed = FALSE /\ proc.torn = FALSE
  BY <1>1 DEF New
<1>3. FlagsOK
  BY <1>2 DEF FlagsOK
<1>4. Job = "idle" /\ ~Spoilt /\ Stored = NoFiles
  BY <1>1, <1>2 DEF Job, Running, Ended, Spoilt, Broken, Stored, At
<1> QED
  BY <1>3, <1>4 DEF Transfer!TransferInit

-----------------------------------------------------------------------------
\* The invariant holds in every reachable state.
THEOREM Invariance == Spec => []IInv
<1>1. Init => IInv
  BY InitIInv
<1>2. IInv /\ [Next]_vars => IInv'
  BY NextIInv
<1> QED
  BY <1>1, <1>2, PTL DEF Spec

\* What is packed, and what a verified checkout held, is of one moment, whoever writes while
\* the files are read (generated_test_results_artifact.py:549-567, 689-709).
THEOREM ArtifactsAreExact == Spec => []ArtifactExact
<1>1. IInv => ArtifactExact
  BY ExactWhenDone DEF IInv
<1> QED
  BY <1>1, Invariance, PTL

\* A restore whose rollback does not fail is all or nothing
\* (generated_test_results_artifact.py:614-675).
THEOREM RestoresAreAllOrNothing == Spec => []AllOrNothing
<1>1. IInv => AllOrNothing
  BY AllOrNothingHolds DEF IInv
<1> QED
  BY <1>1, Invariance, PTL

\* No promotion, however it ends, leaves an index beside rows it does not list, and a blocked
\* one leaves neither (promote_package_results.py:827-831, 966-992).
THEOREM IndexesListTheirRows == Spec => []IndexListsRows
<1>1. IInv => IndexListsRows
  BY IndexListed DEF IInv
<1> QED
  BY <1>1, Invariance, PTL

\* A published row says how its own package's job ended, whatever the batch runs emit and
\* however often the row is retained (promote_package_results.py:501-518).
THEOREM RowsAreTruthful == Spec => []RowsTruthful
<1>1. IInv => RowsTruthful
  BY Truthful
<1> QED
  BY <1>1, Invariance, PTL

\* A publication nobody meddled with has one row for each registered package and their index
\* (promote_package_results.py:852-869; generated_test_results_artifact.py:614-675).
THEOREM PublicationsAreWhole == Spec => []PublishedWhole
<1>1. IInv => PublishedWhole
  BY WholePublished
<1> QED
  BY <1>1, Invariance, PTL

\* No cycle is blocked by what an earlier one published
\* (promote_package_results.py:875-942).
THEOREM BlocksHaveCauses == Spec => []BlockedWithCause
<1>1. IInv => BlockedWithCause
  BY Caused
<1> QED
  BY <1>1, Invariance, PTL

\* No merge puts an older row in the place of a newer one
\* (test-all-packages-summary.yml:1331-1346).
THEOREM RowsGetNoOlder == Spec => NeverOlder
<1>1. IInv /\ [Next]_vars =>
        \A p \in DOMAIN RowsOf(main.files) \cap DOMAIN RowsOf(main'.files) :
          main'.files[p].run >= main.files[p].run
  BY MainSteps
<1> QED
  BY <1>1, Invariance, PTL DEF Spec, NeverOlder

\* Throughout a summary run the artifact's commands keep what FileTransfer promises: whoever
\* leaves them alone sees the files of one moment packed, all of them restored or none, and
\* exactly them verified (generated_test_results_artifact.py:549-567, 614-675, 689-709).
THEOREM ImplementsTransfer == Spec => TransferRefined
<1>1. Init => FlagsOK /\ Transfer!TransferInit
  BY InitPromised
<1>2. IInv /\ FlagsOK /\ [Next]_vars => FlagsOK'
  BY NextFlags
<1>3. IInv /\ IInv' /\ FlagsOK /\ FlagsOK' /\ [Next]_vars
        => [Transfer!TransferNext]_Transfer!transferVars
  BY NextPromised DEF Promised
<1> QED
  BY <1>1, <1>2, <1>3, Invariance, PTL DEF Spec, TransferRefined, Transfer!TransferSpec
=============================================================================
