------------------------- MODULE ReleaseCacheProofs -------------------------
(***************************************************************************)
(* What the release cache promises, proved for any number of runs, cache    *)
(* roots, targets and files: a run installs its own bundle, a recorded      *)
(* bundle stays complete, and what was downloaded whole stays whole.        *)
(***************************************************************************)
EXTENDS ReleaseCache, TLAPS, SequenceTheorems

\* Each step of the system, by name.
LEMMA Steps ==
  ASSUME [Next]_vars
  PROVE  \/ \E p \in Procs :
              \/ \E c \in Caches, t \in Targets : OneShot(p, c, t) \/ Continue(p, c, t)
              \/ Fetch(p) \/ Connect(p) \/ Receive(p) \/ Publish(p) \/ Hash(p)
              \/ Verify(p) \/ Copy(p) \/ Extract(p) \/ Swap(p) \/ Install(p)
              \/ Broken(p, "connect") \/ Broken(p, "receive") \/ Kill(p)
         \/ BecomeCalm \/ UNCHANGED vars
BY DEF Next, ProcNext, RunStep, DownloadStep, PrepareStep

-----------------------------------------------------------------------------
(* The lists of files *)

Contains(s, k) == \E n \in 1 .. Len(s) : s[n] = k

\* Both lists are lists of files and not empty; the one that is copied has every file.
LEMMA Lists ==
  ASSUME ReleaseCacheConstantsOK
  PROVE  /\ <<"sums">> \o Listed \in Seq(Kinds) /\ <<"sums">> \o Listed # <<>>
         /\ Listed \o <<"sums">> \in Seq(Kinds) /\ Listed \o <<"sums">> # <<>>
         /\ \A k \in Kinds : Contains(Listed \o <<"sums">>, k)
<1> DEFINE all == Listed \o <<"sums">>
<1>1. Listed \in Seq(Kinds) /\ <<"sums">> \in Seq(Kinds) /\ Len(Listed) \in Nat
  <2>1. Listed \in Seq(STRING \ {"sums"})
    BY DEF ReleaseCacheConstantsOK
  <2>2. Len(Listed) \in Nat /\ Listed = [n \in 1 .. Len(Listed) |-> Listed[n]]
    BY <2>1, LenProperties
  <2>3. \A n \in 1 .. Len(Listed) : Listed[n] \in Kinds
    BY DEF Kinds
  <2>4. Listed \in Seq(Kinds)
    BY <2>2, <2>3
  <2> QED
    BY <2>2, <2>4 DEF Kinds
<1>2. /\ Len(all) = Len(Listed) + 1 /\ Len(<<"sums">> \o Listed) = 1 + Len(Listed)
      /\ \A n \in 1 .. Len(Listed) + 1 : all[n] = IF n <= Len(Listed) THEN Listed[n] ELSE "sums"
      /\ all \in Seq(Kinds) /\ <<"sums">> \o Listed \in Seq(Kinds)
  BY <1>1, ConcatProperties
<1>3. \A k \in Kinds : Contains(all, k)
  <2> SUFFICES ASSUME NEW k \in Kinds PROVE Contains(all, k)
    OBVIOUS
  <2>1. CASE k = "sums"
    BY <1>1, <1>2, <2>1 DEF Contains
  <2>2. CASE k # "sums"
    <3>1. PICK n \in 1 .. Len(Listed) : k = Listed[n]
      BY <2>2 DEF Kinds
    <3> QED
      BY <1>1, <1>2, <3>1 DEF Contains
  <2> QED
    BY <2>1, <2>2
<1> QED
  BY <1>1, <1>2, <1>3

\* What a list has is its head or in its tail.
LEMMA HeadOrTail ==
  ASSUME NEW s \in Seq(Kinds), s # <<>>
  PROVE  /\ Head(s) \in Kinds /\ Tail(s) \in Seq(Kinds)
         /\ \A k : Contains(s, k) => k = Head(s) \/ Contains(Tail(s), k)
         /\ ~ \E k : Contains(<<>>, k)
<1>1. /\ Head(s) \in Kinds /\ Tail(s) \in Seq(Kinds) /\ Len(Tail(s)) = Len(s) - 1
      /\ \A i \in 1 .. Len(Tail(s)) : Tail(s)[i] = s[i + 1]
      /\ Len(s) \in Nat /\ Head(s) = s[1]
  BY HeadTailProperties, LenProperties
<1>2. ASSUME NEW k, Contains(s, k), k # Head(s)
      PROVE  Contains(Tail(s), k)
  <2>1. PICK n \in 1 .. Len(s) : s[n] = k
    BY <1>2 DEF Contains
  <2>2. n - 1 \in 1 .. Len(Tail(s)) /\ Tail(s)[n - 1] = k
    BY <1>1, <1>2, <2>1
  <2> QED
    BY <2>2 DEF Contains
<1>3. ~ \E k : Contains(<<>>, k)
  BY DEF Contains
<1> QED
  BY <1>1, <1>2, <1>3

-----------------------------------------------------------------------------
(* The types *)

\* A run that goes through files has one to go through.
Busy(p) == pc[p] \in Downloading \cup {"copy"} => run[p].todo # <<>>
\* A file is open while it is received, and then where the run thinks it is.
Opened(p) ==
  /\ At(p, "receive") =>
       /\ run[p].open # "none"
       /\ run[p].open = "part" => part[File(p)] \in Content
       /\ run[p].open = "file" => file[File(p)] \in Content
  /\ ~At(p, "idle") /\ ~At(p, "receive") => run[p].open = "none"
Typed == TypeOK /\ \A p \in Procs : Busy(p) /\ Opened(p)

\* The file a run is at is a file.
LEMMA FileTyped ==
  ASSUME Typed, NEW p \in Procs, pc[p] \in Downloading \cup {"copy"}
  PROVE  /\ run[p] \in Run /\ File(p) \in Files
         /\ Head(run[p].todo) \in Kinds /\ Tail(run[p].todo) \in Seq(Kinds)
<1>1. run[p] \in Run /\ run[p].todo \in Seq(Kinds) /\ run[p].todo # <<>> /\ run[p].target \in Targets
  BY DEF Typed, TypeOK, Busy, At, Downloading, Run
<1> QED
  BY <1>1, HeadOrTail DEF File, Files

\* A run that ends frees its cache root.
LEMMA Leaves ==
  ASSUME Typed, NEW p \in Procs, ~At(p, "idle"), Leave(p)
  PROVE  /\ pc' \in [Procs -> {"idle", "use"} \cup Downloading \cup Preparing]
         /\ run' \in [Procs -> Run \cup {None}] /\ lock' \in [Caches -> Procs \cup {None}]
         /\ At(p, "idle")' /\ run'[p] = None
         /\ \A q \in Procs \ {p} : pc'[q] = pc[q] /\ run'[q] = run[q]
BY DEF Typed, TypeOK, Leave, At

\* A run that goes on to a label with other locals.
LEMMA GoesOn ==
  ASSUME Typed, NEW p \in Procs, ~At(p, "idle"), NEW r \in Run,
         NEW label \in {"use"} \cup Downloading \cup Preparing,
         pc' = [pc EXCEPT ![p] = label], run' = [run EXCEPT ![p] = r]
  PROVE  /\ pc' \in [Procs -> {"idle", "use"} \cup Downloading \cup Preparing]
         /\ run' \in [Procs -> Run \cup {None}]
         /\ pc'[p] = label /\ run'[p] = r /\ ~At(p, "idle")'
         /\ \A q \in Procs \ {p} : pc'[q] = pc[q] /\ run'[q] = run[q]
BY DEF Typed, TypeOK, At, Downloading, Preparing

\* Files that move under the runs that write them change nothing else of any run.
LEMMA MovedTyped ==
  ASSUME Typed, NEW f, NEW name \in {Renamed, Removed}
  PROVE  /\ Moved(f, name) \in [Procs -> Run \cup {None}]
         /\ \A q \in Procs : At(q, "idle") => Moved(f, name)[q] = None
         /\ \A q \in Procs : ~At(q, "idle") =>
              /\ Moved(f, name)[q] \in Run
              /\ Moved(f, name)[q].cache = run[q].cache
              /\ Moved(f, name)[q].target = run[q].target
              /\ Moved(f, name)[q].source = run[q].source
              /\ Moved(f, name)[q].todo = run[q].todo
              /\ Moved(f, name)[q].open =
                   IF At(q, "receive") /\ File(q) = f THEN name[run[q].open] ELSE run[q].open
<1>1. ASSUME NEW q \in Procs, At(q, "idle")
      PROVE  Moved(f, name)[q] = None
  BY <1>1 DEF Typed, TypeOK, Moved, Writers, At
<1>2. ASSUME NEW q \in Procs, ~At(q, "idle")
      PROVE  /\ Moved(f, name)[q] \in Run
             /\ Moved(f, name)[q].cache = run[q].cache
             /\ Moved(f, name)[q].target = run[q].target
             /\ Moved(f, name)[q].source = run[q].source
             /\ Moved(f, name)[q].todo = run[q].todo
             /\ Moved(f, name)[q].open =
                   IF At(q, "receive") /\ File(q) = f THEN name[run[q].open] ELSE run[q].open
  <2>1. run[q] \in Run
    BY <1>2 DEF Typed, TypeOK
  <2>2. CASE At(q, "receive") /\ File(q) = f
    <3>1. run[q].open \in {"part", "file", "removed"}
      BY <2>1, <2>2 DEF Typed, Opened, Run
    <3>2. name[run[q].open] \in {"none", "part", "file", "removed"}
      BY <3>1 DEF Renamed, Removed
    <3>3. Moved(f, name)[q] = [run[q] EXCEPT !.open = name[run[q].open]]
      BY <2>2 DEF Moved, Writers
    <3> QED
      BY <2>1, <2>2, <3>2, <3>3 DEF Run
  <2>3. CASE ~(At(q, "receive") /\ File(q) = f)
    <3>1. Moved(f, name)[q] = run[q]
      BY <2>3 DEF Moved, Writers
    <3> QED
      BY <2>1, <2>3, <3>1
  <2> QED
    BY <2>2, <2>3
<1>3. Moved(f, name) = [q \in Procs |-> Moved(f, name)[q]]
  BY DEF Moved
<1> QED
  BY <1>1, <1>2, <1>3

\* A run begins with typed locals, and no open file.
LEMMA BeginStep ==
  ASSUME ReleaseCacheConstantsOK, Typed, NEW p \in Procs,
         \E c \in Caches, t \in Targets : OneShot(p, c, t) \/ Continue(p, c, t)
  PROVE  Typed'
<1>1. PICK c \in Caches, t \in Targets, source \in Sources, label \in {"verify", "fetch"},
           list \in Seq(Kinds) :
        Begin(p, c, t, source, label, list) /\ (label = "fetch" => list # <<>>)
  <2>1. PICK c \in Caches, t \in Targets : OneShot(p, c, t) \/ Continue(p, c, t)
    OBVIOUS
  <2>2. <<>> \in Seq(Kinds) /\ Origin(c) \in Sources /\ {"local", "down"} \subseteq Sources
    BY DEF Origin, Sources
  <2> QED
    BY <2>1, <2>2, Lists DEF OneShot, Continue
<1> DEFINE r == [cache |-> c, target |-> t, source |-> source, todo |-> list,
                 open |-> "none", offset |-> 0]
<1>2. r \in Run
  BY DEF ReleaseCacheConstantsOK, Run
<1>3. /\ pc' = [pc EXCEPT ![p] = label] /\ run' = [run EXCEPT ![p] = r]
      /\ lock' = [lock EXCEPT ![c] = p]
      /\ UNCHANGED <<file, part, kept, bundle, recorded, changed, calm>>
  BY <1>1 DEF Begin, cacheVars
<1>4. TypeOK'
  BY <1>2, <1>3 DEF Typed, TypeOK, At, Downloading, Preparing
<1>5. /\ pc'[p] = label /\ run'[p] = r /\ r.open = "none" /\ r.todo = list
      /\ \A q \in Procs \ {p} : pc'[q] = pc[q] /\ run'[q] = run[q]
  BY <1>2, <1>3 DEF Typed, TypeOK
<1>6. Busy(p)' /\ Opened(p)'
  BY <1>1, <1>5 DEF Busy, Opened, At, Downloading
<1>7. \A q \in Procs \ {p} : Busy(q)' /\ Opened(q)'
  BY <1>3, <1>5 DEF Typed, Busy, Opened, At, File
<1> QED
  BY <1>4, <1>6, <1>7 DEF Typed

\* Steps that end a run and change no file of the download directory.
LEMMA LeaveStep ==
  ASSUME Typed, NEW p \in Procs, ~At(p, "idle"), Leave(p),
         UNCHANGED <<file, part, kept, bundle, changed, calm>>,
         recorded' \in [Caches -> SUBSET Targets]
  PROVE  Typed'
<1>1. TypeOK'
  BY Leaves DEF Typed, TypeOK, At
<1>2. Busy(p)' /\ Opened(p)'
  BY Leaves DEF Busy, Opened, At, Downloading
<1>3. \A q \in Procs \ {p} : Busy(q)' /\ Opened(q)'
  BY Leaves DEF Typed, Busy, Opened, At, File
<1> QED
  BY <1>1, <1>2, <1>3 DEF Typed

\* Steps of a run that opens, writes and closes no file.
LEMMA QuietStep ==
  ASSUME Typed, NEW p \in Procs, ~At(p, "idle"), ~At(p, "receive"), NEW r \in Run,
         NEW label \in ({"use"} \cup Downloading \cup Preparing) \ {"receive"},
         pc' = [pc EXCEPT ![p] = label], run' = [run EXCEPT ![p] = r], r.open = run[p].open,
         label \in Downloading \cup {"copy"} => r.todo # <<>>,
         UNCHANGED <<file, part, recorded, lock, changed, calm>>,
         kept' \in [Caches -> [Files -> Content]], bundle' \in [Caches -> Targets \cup {None}]
  PROVE  Typed'
<1>1. TypeOK'
  BY GoesOn DEF Typed, TypeOK, At
<1>2. Busy(p)' /\ Opened(p)'
  BY GoesOn DEF Typed, Busy, Opened, At, Downloading
<1>3. \A q \in Procs \ {p} : Busy(q)' /\ Opened(q)'
  BY GoesOn DEF Typed, Busy, Opened, At, File
<1> QED
  BY <1>1, <1>2, <1>3 DEF Typed

\* The next file, or the next stage.
LEMMA Advances ==
  ASSUME Typed, NEW p \in Procs, NEW from \in {"fetch", "hash", "copy"}, NEW again, NEW done,
         Advance(p, from, again, done, <<>>)
  PROVE  \E r \in Run, label \in {again, done} :
           /\ pc' = [pc EXCEPT ![p] = label] /\ run' = [run EXCEPT ![p] = r] /\ lock' = lock
           /\ r = [run[p] EXCEPT !.todo = r.todo]
           /\ r.todo = Tail(run[p].todo)
           /\ label = again <=> r.todo # <<>> \/ again = done
           /\ label = done <=> r.todo = <<>> \/ again = done
<1>1. At(p, from) /\ from \in Downloading \cup {"copy"}
  BY DEF Advance, Goto, Downloading
<1>2. run[p] \in Run /\ Tail(run[p].todo) \in Seq(Kinds)
  BY <1>1, FileTyped DEF At
<1> DEFINE rest == Tail(run[p].todo)
           r == [run[p] EXCEPT !.todo = rest]
           label == IF rest = <<>> THEN done ELSE again
<1>3. r \in Run /\ r.todo = rest /\ label \in {again, done}
  BY <1>2 DEF Run
<1>4. pc' = [pc EXCEPT ![p] = label] /\ run' = [run EXCEPT ![p] = r] /\ lock' = lock
  BY DEF Advance, Goto
<1> QED
  BY <1>3, <1>4

\* The connected run's file is empty, also for the others that write it.
LEMMA ConnectStep ==
  ASSUME ReleaseCacheConstantsOK, Typed, NEW p \in Procs, Connect(p)
  PROVE  Typed'
<1>1. At(p, "connect") /\ run[p] \in Run /\ File(p) \in Files /\ run[p].todo # <<>>
  BY FileTyped DEF Connect, Goto, At, Downloading, Typed, Busy
<1> DEFINE r == [run[p] EXCEPT !.open = "part", !.offset = 0]
<1>2. r \in Run /\ r.open = "part" /\ r.todo = run[p].todo /\ r.target = run[p].target
  <2>1. 0 \in 0 .. Blocks
    BY DEF ReleaseCacheConstantsOK
  <2> QED
    BY <1>1, <2>1 DEF Run
<1>3. /\ pc' = [pc EXCEPT ![p] = "receive"] /\ run' = [run EXCEPT ![p] = r]
      /\ part' = [part EXCEPT ![File(p)] = {}]
      /\ UNCHANGED <<file, kept, bundle, recorded, lock, changed, calm>>
  BY DEF Connect, Goto, cacheVars, Quiet
<1>4. /\ part' \in [Files -> Content \cup {None}] /\ part'[File(p)] = {} /\ {} \in Content
      /\ \A f \in Files : part'[f] = part[f] \/ part'[f] = {}
  BY <1>1, <1>3 DEF Typed, TypeOK, Content
<1>5. /\ pc'[p] = "receive" /\ run'[p] = r
      /\ \A q \in Procs \ {p} : pc'[q] = pc[q] /\ run'[q] = run[q]
  BY <1>1, <1>2, <1>3, GoesOn DEF At, Downloading
<1>6. TypeOK'
  BY <1>1, <1>2, <1>3, <1>4, GoesOn DEF Typed, TypeOK, At, Downloading
<1>7. Busy(p)' /\ Opened(p)'
  <2>1. part'[<<r.target, Head(r.todo)>>] \in Content
    BY <1>2, <1>4 DEF File
  <2> QED
    BY <1>1, <1>2, <1>5, <2>1 DEF Busy, Opened, At, File, Downloading
<1>8. ASSUME NEW q \in Procs \ {p}
      PROVE  Busy(q)' /\ Opened(q)'
  <2>1. At(q, "receive") => File(q) \in Files
    BY FileTyped DEF At, Downloading
  <2> QED
    BY <1>3, <1>4, <1>5, <2>1 DEF Typed, Busy, Opened, At, File
<1> QED
  BY <1>6, <1>7, <1>8 DEF Typed

\* A block more, in the temporary or the final file.
LEMMA ReceiveStep ==
  ASSUME ReleaseCacheConstantsOK, Typed, NEW p \in Procs, Receive(p)
  PROVE  /\ Typed'
         /\ \A q \in Procs : /\ pc'[q] = pc[q]
                            /\ q # p => run'[q] = run[q]
                            /\ run'[q].cache = run[q].cache /\ run'[q].target = run[q].target
                            /\ run'[q].source = run[q].source /\ run'[q].todo = run[q].todo
         /\ \A f \in Files : file[f] = Whole => file'[f] = Whole
         /\ 0 < Blocks
<1> DEFINE block == {run[p].offset + 1}
           r == [run[p] EXCEPT !.offset = @ + 1]
<1>1. At(p, "receive") /\ run[p] \in Run /\ File(p) \in Files /\ run[p].offset < Blocks
  BY FileTyped DEF Receive, At, Downloading
<1>2. /\ r \in Run /\ r.todo = run[p].todo /\ r.cache = run[p].cache /\ r.source = run[p].source
      /\ r.open = run[p].open /\ r.target = run[p].target /\ block \subseteq Whole /\ 0 < Blocks
  BY SMTT(30), <1>1 DEF Run, ReleaseCacheConstantsOK, Whole
<1>3. /\ run' = [run EXCEPT ![p] = r] /\ pc' = pc
      /\ UNCHANGED <<kept, bundle, recorded, lock, changed, calm>>
      /\ part' = IF run[p].open = "part" THEN [part EXCEPT ![File(p)] = @ \cup block] ELSE part
      /\ file' = IF run[p].open = "file" THEN [file EXCEPT ![File(p)] = @ \cup block] ELSE file
  BY DEF Receive, cacheVars, Quiet
<1>4. /\ run[p].open = "part" => part[File(p)] \in Content
      /\ run[p].open = "file" => file[File(p)] \in Content
  BY <1>1 DEF Typed, Opened
<1>5. \A content \in Content : content \cup block \in Content
  BY <1>2 DEF Content, Whole
<1>6. /\ part' \in [Files -> Content \cup {None}] /\ file' \in [Files -> Content \cup {None}]
      /\ \A f \in Files : part[f] \in Content => part'[f] \in Content
      /\ \A f \in Files : file[f] \in Content => file'[f] \in Content
  BY <1>1, <1>3, <1>4, <1>5 DEF Typed, TypeOK
<1>7. \A f \in Files : file[f] = Whole => file'[f] = Whole
  BY <1>1, <1>2, <1>3 DEF Typed, TypeOK
<1>8. \A q \in Procs : q # p => run'[q] = run[q]
  BY <1>3 DEF Typed, TypeOK
<1>9. run'[p] = r /\ run' \in [Procs -> Run \cup {None}]
  BY <1>2, <1>3 DEF Typed, TypeOK
<1>10. TypeOK'
  BY <1>1, <1>2, <1>3, <1>6, <1>8, <1>9 DEF Typed, TypeOK, At
<1>11. \A q \in Procs : At(q, "receive") => File(q) \in Files
  BY FileTyped DEF At, Downloading
<1>12. \A q \in Procs : Busy(q)' /\ Opened(q)'
  <2>1. ASSUME NEW q \in Procs
        PROVE  /\ pc'[q] = pc[q] /\ run'[q].target = run[q].target
               /\ run'[q].todo = run[q].todo /\ run'[q].open = run[q].open
    BY <1>2, <1>3, <1>8, <1>9
  <2>2. ASSUME NEW q \in Procs
        PROVE  Busy(q)'
    BY <2>1 DEF Typed, Busy
  <2>3. ASSUME NEW q \in Procs
        PROVE  Opened(q)'
    BY <1>6, <1>11, <2>1 DEF Typed, Opened, At, File
  <2> QED
    BY <2>2, <2>3
<1> QED
  BY <1>2, <1>3, <1>7, <1>8, <1>9, <1>10, <1>12 DEF Typed

\* A temporary file that is published, or removed: its writers find it elsewhere.
LEMMA MovedStep ==
  ASSUME Typed, NEW p \in Procs, pc[p] \in {"connect", "receive"},
         NEW name \in {Renamed, Removed}, NEW r \in Run \cup {None}, NEW label \in {"idle", "hash"},
         label = "idle" => r = None,
         label = "hash" => r \in Run /\ r.open = "none" /\ r.todo # <<>>,
         pc' = [pc EXCEPT ![p] = label], run' = [Moved(File(p), name) EXCEPT ![p] = r],
         part' = [part EXCEPT ![File(p)] = None],
         name = Renamed => file' = [file EXCEPT ![File(p)] = part[File(p)]],
         name = Removed => file' = file,
         UNCHANGED <<kept, bundle, recorded, calm>>,
         lock' \in [Caches -> Procs \cup {None}], changed' \subseteq Caches
  PROVE  Typed'
<1>1. File(p) \in Files /\ \A q \in Procs : At(q, "receive") => File(q) \in Files
  BY FileTyped DEF At, Downloading
<1> DEFINE moved == Moved(File(p), name)
<1>2. moved \in [Procs -> Run \cup {None}]
  BY MovedTyped
<1>3. /\ pc'[p] = label /\ run'[p] = r /\ run' \in [Procs -> Run \cup {None}]
      /\ \A q \in Procs \ {p} : pc'[q] = pc[q] /\ run'[q] = moved[q]
  BY <1>2 DEF Typed, TypeOK
<1>4. part' \in [Files -> Content \cup {None}] /\ file' \in [Files -> Content \cup {None}]
  BY <1>1 DEF Typed, TypeOK
<1>5. pc' \in [Procs -> {"idle", "use"} \cup Downloading \cup Preparing]
  BY DEF Typed, TypeOK, Downloading
<1>6. \A q \in Procs : IF At(q, "idle")' THEN run'[q] = None ELSE run'[q] \in Run
  <2>1. ASSUME NEW q \in Procs \ {p}
        PROVE  IF At(q, "idle")' THEN run'[q] = None ELSE run'[q] \in Run
    BY <1>3, MovedTyped DEF At
  <2> QED
    BY <1>3, <2>1 DEF At
<1>7. TypeOK'
  BY <1>3, <1>4, <1>5, <1>6 DEF Typed, TypeOK
<1>8. Busy(p)' /\ Opened(p)'
  BY <1>3 DEF Busy, Opened, At, Downloading
<1>9. ASSUME NEW q \in Procs \ {p}
      PROVE  Busy(q)' /\ Opened(q)'
  <2>1. CASE At(q, "idle")
    BY <1>3, <2>1 DEF Busy, Opened, At, Downloading
  <2>2. CASE ~At(q, "idle")
    <3>1. /\ pc'[q] = pc[q] /\ run'[q].todo = run[q].todo /\ run'[q].target = run[q].target
          /\ run'[q].open = IF At(q, "receive") /\ File(q) = File(p) THEN name[run[q].open]
                            ELSE run[q].open
      BY <1>3, <2>2, MovedTyped
    <3>2. Busy(q)'
      BY <3>1 DEF Typed, Busy
    <3>3. /\ File(q)' = File(q) /\ At(q, "receive")' = At(q, "receive") /\ ~At(q, "idle")'
          /\ Opened(q)
      BY <2>2, <3>1 DEF File, At, Typed
    <3>4. CASE ~At(q, "receive")
      <4>1. run'[q].open = run[q].open /\ run[q].open = "none"
        BY <2>2, <3>1, <3>4, <3>3 DEF Opened
      <4> QED
        BY <3>2, <3>4, <3>3, <4>1 DEF Opened
    <3>5. CASE At(q, "receive") /\ File(q) # File(p)
      <4>1. part'[File(q)] = part[File(q)] /\ file'[File(q)] = file[File(q)]
        BY <1>1, <3>5 DEF Typed, TypeOK
      <4> QED
        BY <3>1, <3>2, <3>5, <3>3, <4>1 DEF Opened
    <3>6. CASE At(q, "receive") /\ File(q) = File(p)
      <4>1. run[q] \in Run /\ run[q].open \in {"part", "file", "removed"}
        BY <2>2, <3>6 DEF Typed, TypeOK, Opened, Run
      <4>2. /\ run[q].open = "part" => part[File(p)] \in Content
            /\ run[q].open = "file" => file[File(p)] \in Content
        BY <3>6 DEF Typed, Opened
      <4>3. CASE name = Renamed
        <5>1. /\ run'[q].open = IF run[q].open = "part" THEN "file" ELSE "removed"
              /\ file'[File(q)] = part[File(p)]
          BY <1>1, <3>1, <3>6, <4>1, <4>3 DEF Renamed, Typed, TypeOK
        <5> QED
          BY <3>2, <3>6, <3>3, <4>1, <4>2, <5>1 DEF Opened
      <4>4. CASE name = Removed
        <5>1. /\ run'[q].open = IF run[q].open = "file" THEN "file" ELSE "removed"
              /\ file'[File(q)] = file[File(p)]
          BY <3>1, <3>6, <4>1, <4>4 DEF Removed
        <5> QED
          BY <3>2, <3>6, <3>3, <4>1, <4>2, <5>1 DEF Opened
      <4> QED
        BY <4>3, <4>4
    <3> QED
      BY <3>2, <3>4, <3>5, <3>6
  <2> QED
    BY <2>1, <2>2
<1> QED
  BY <1>7, <1>8, <1>9 DEF Typed

\* What is published is found under its final name by all who still write it.
LEMMA PublishStep ==
  ASSUME ReleaseCacheConstantsOK, Typed, NEW p \in Procs, Publish(p)
  PROVE  Typed'
<1>1. At(p, "receive") /\ ~At(p, "idle") /\ run[p].todo # <<>>
  BY DEF Publish, Typed, Busy, At, Downloading
<1>2. CASE part[File(p)] # None
  <2> DEFINE moved == Moved(File(p), Renamed)
             r == [moved[p] EXCEPT !.open = "none", !.offset = 0]
  <2>1. moved[p] \in Run /\ moved[p].todo = run[p].todo
    BY <1>1, MovedTyped
  <2>2. 0 \in 0 .. Blocks
    BY DEF ReleaseCacheConstantsOK
  <2>3. r \in Run /\ r.open = "none" /\ r.todo # <<>>
    BY <1>1, <2>1, <2>2 DEF Run
  <2>4. run' = [moved EXCEPT ![p] = r]
    BY <1>2 DEF Publish
  <2>5. Readers(p) \subseteq Caches
    BY DEF Readers, Typed, TypeOK, Run, At
  <2>6. lock' \in [Caches -> Procs \cup {None}] /\ changed' \subseteq Caches
    BY <1>2, <2>5 DEF Publish, Typed, TypeOK
  <2> QED
    <3>1. /\ pc' = [pc EXCEPT ![p] = "hash"] /\ part' = [part EXCEPT ![File(p)] = None]
          /\ file' = [file EXCEPT ![File(p)] = part[File(p)]]
          /\ UNCHANGED <<kept, bundle, recorded, calm>>
      BY <1>2 DEF Publish, Goto, cacheVars
    <3>2. Renamed # Removed /\ pc[p] \in {"connect", "receive"}
      BY <1>1 DEF Renamed, Removed, At
    <3> HIDE DEF r, moved
    <3> QED
      BY <2>3, <2>4, <2>6, <3>1, <3>2, MovedStep DEF moved
<1>3. CASE part[File(p)] = None
  BY <1>1, <1>3, LeaveStep DEF Publish, cacheVars, Typed, TypeOK
<1> QED
  BY <1>2, <1>3

\* An error takes the temporary file from all who write it.
LEMMA BrokenStep ==
  ASSUME Typed, NEW p \in Procs, NEW from \in {"connect", "receive"}, Broken(p, from)
  PROVE  Typed'
<1>1. pc[p] \in {"connect", "receive"} /\ run[p].cache \in Caches
  BY DEF Broken, At, Typed, TypeOK, Run
<1>2. lock' \in [Caches -> Procs \cup {None}] /\ changed' \subseteq Caches
  BY <1>1 DEF Broken, Typed, TypeOK, Quiet
<1>3. /\ pc' = [pc EXCEPT ![p] = "idle"] /\ run' = [Moved(File(p), Removed) EXCEPT ![p] = None]
      /\ part' = [part EXCEPT ![File(p)] = None] /\ file' = file
      /\ UNCHANGED <<kept, bundle, recorded, calm>>
  BY DEF Broken, cacheVars, Quiet
<1> QED
  BY <1>1, <1>2, <1>3, MovedStep DEF Renamed, Removed

\* Every step keeps the types.
LEMMA TypedStep ==
  ASSUME ReleaseCacheConstantsOK, Typed, [Next]_vars
  PROVE  Typed'
<1>1. ASSUME NEW p \in Procs, NEW from, ~At(p, "idle"), Fail(p, from)
      PROVE  Typed'
  BY <1>1, LeaveStep DEF Fail, cacheVars, Typed, TypeOK
<1>2. ASSUME NEW p \in Procs, NEW from \in {"fetch", "hash", "copy"},
             NEW again \in Downloading \cup {"copy"}, again # "receive",
             NEW done \in Preparing \ {"copy"}, Advance(p, from, again, done, <<>>),
             UNCHANGED <<file, part, bundle, recorded, changed, calm>>,
             kept' \in [Caches -> [Files -> Content]]
      PROVE  Typed'
  <2>1. PICK r \in Run, label \in {again, done} :
           /\ pc' = [pc EXCEPT ![p] = label] /\ run' = [run EXCEPT ![p] = r] /\ lock' = lock
           /\ r = [run[p] EXCEPT !.todo = r.todo]
           /\ label = again => r.todo # <<>>
    <3>1. again # done
      BY <1>2 DEF Downloading, Preparing
    <3> QED
      BY <1>2, <3>1, Advances
  <2>2. At(p, from) /\ ~At(p, "idle") /\ ~At(p, "receive")
    BY <1>2 DEF Advance, Goto, At
  <2>3. r.open = run[p].open
    <3>1. run[p] \in Run
      BY <2>2 DEF Typed, TypeOK
    <3> QED
      BY <2>1, <3>1 DEF Run
  <2>4. /\ label \in ({"use"} \cup Downloading \cup Preparing) \ {"receive"}
        /\ label \in Downloading \cup {"copy"} => r.todo # <<>>
    <3>1. CASE label = again
      BY <1>2, <2>1, <3>1 DEF Downloading, Preparing
    <3>2. CASE label = done
      BY <1>2, <2>1, <3>2 DEF Downloading, Preparing
    <3> QED
      BY <2>1, <3>1, <3>2
  <2>5. bundle' \in [Caches -> Targets \cup {None}]
    BY <1>2 DEF Typed, TypeOK
  <2> QED
    BY <1>2, <2>1, <2>2, <2>3, <2>4, <2>5, QuietStep
<1>3. ASSUME NEW p \in Procs, Fetch(p)
      PROVE  Typed'
  <2>1. CASE Advance(p, "fetch", "fetch", "verify", <<>>)
    BY <1>2, <1>3, <2>1 DEF Fetch, Quiet, cacheVars, Downloading, Preparing, Typed, TypeOK
  <2>2. CASE Goto(p, "fetch", "connect") /\ UNCHANGED <<run, lock>>
    <3>1. At(p, "fetch") /\ run[p] \in Run /\ run[p].todo # <<>>
      BY <2>2 DEF Goto, Typed, TypeOK, At, Busy, Downloading
    <3>2. run' = [run EXCEPT ![p] = run[p]] /\ pc' = [pc EXCEPT ![p] = "connect"]
      BY <2>2 DEF Goto, Typed, TypeOK
    <3> QED
      BY <1>3, <2>2, <3>1, <3>2, QuietStep DEF Fetch, Quiet, cacheVars, Downloading, At, Typed, TypeOK
  <2> QED
    BY <1>3, <2>1, <2>2 DEF Fetch
<1>4. ASSUME NEW p \in Procs, Hash(p)
      PROVE  Typed'
  <2>1. CASE Advance(p, "hash", "fetch", "verify", <<>>) /\ UNCHANGED <<file, part, cacheVars>> /\ Quiet
    BY <1>2, <2>1 DEF Quiet, cacheVars, Downloading, Preparing, Typed, TypeOK
  <2> QED
    BY <1>1, <1>4, <2>1 DEF Hash, At
<1>5. ASSUME NEW p \in Procs, Verify(p)
      PROVE  Typed'
  <2>1. CASE Goto(p, "verify", IF run[p].source = "kept" THEN "extract" ELSE "copy")
    <3> DEFINE list == IF run[p].source = "kept" THEN <<>> ELSE Listed \o <<"sums">>
               r == [run[p] EXCEPT !.todo = list]
    <3>1. At(p, "verify") /\ run[p] \in Run
      BY <2>1 DEF Goto, Typed, TypeOK, At
    <3>2. list \in Seq(Kinds) /\ (run[p].source # "kept" => list # <<>>)
      BY Lists
    <3>3. r \in Run /\ r.open = run[p].open /\ r.todo = list
      BY <3>1, <3>2 DEF Run
    <3>4. /\ pc' = [pc EXCEPT ![p] = IF run[p].source = "kept" THEN "extract" ELSE "copy"]
          /\ run' = [run EXCEPT ![p] = r] /\ UNCHANGED <<file, part, cacheVars, lock>> /\ Quiet
      BY <1>5, <2>1, <3>1 DEF Verify, Goto, Fail, At, Leave, Typed, TypeOK
    <3> QED
      BY <3>1, <3>2, <3>3, <3>4, QuietStep DEF Quiet, cacheVars, At, Downloading, Preparing, Typed, TypeOK
  <2> QED
    BY <1>1, <1>5, <2>1 DEF Verify, At
<1>6. ASSUME NEW p \in Procs, Copy(p)
      PROVE  Typed'
  <2>1. File(p) \in Files /\ run[p] \in Run
    BY <1>6, FileTyped DEF Copy, At
  <2>2. Source(p, File(p)) \in Content
    BY <2>1 DEF Source, Download, Kept, Content, Whole, Typed, TypeOK, Run, Sources
  <2>3. kept' \in [Caches -> [Files -> Content]]
    BY <1>6, <2>1, <2>2 DEF Copy, Typed, TypeOK, Run
  <2> QED
    BY <1>2, <1>6, <2>3 DEF Copy, Quiet, Preparing
<1>7. ASSUME NEW p \in Procs, NEW from \in {"extract", "swap"}, NEW to \in {"swap", "use"},
             Goto(p, from, to), UNCHANGED <<file, part, kept, recorded, lock, run, changed, calm>>,
             bundle' \in [Caches -> Targets \cup {None}]
      PROVE  Typed'
  <2>1. ~At(p, "idle") /\ ~At(p, "receive") /\ run[p] \in Run
    BY <1>7 DEF Goto, Typed, TypeOK, At
  <2>2. run' = [run EXCEPT ![p] = run[p]] /\ pc' = [pc EXCEPT ![p] = to]
    BY <1>7 DEF Goto, Typed, TypeOK
  <2> QED
    BY <1>7, <2>1, <2>2, QuietStep DEF Downloading, Preparing, Typed, TypeOK
<1>8. ASSUME NEW p \in Procs, Extract(p)
      PROVE  Typed'
  <2>1. CASE Goto(p, "extract", "swap")
    <3>1. bundle' \in [Caches -> Targets \cup {None}]
      BY <1>8, <2>1 DEF Extract, Fail, Typed, TypeOK, cacheVars
    <3>2. At(p, "extract") /\ ~At(p, "idle") /\ pc'[p] = "swap"
      BY <2>1 DEF Goto, At, Typed, TypeOK
    <3> QED
      BY <1>1, <1>7, <1>8, <2>1, <3>1, <3>2 DEF Extract, Quiet
  <2> QED
    BY <1>1, <1>8, <2>1 DEF Extract, At
<1>9. ASSUME NEW p \in Procs, Swap(p)
      PROVE  Typed'
  <2>1. run[p].target \in Targets
    BY <1>9 DEF Swap, Goto, At, Typed, TypeOK, Run
  <2>2. bundle' \in [Caches -> Targets \cup {None}]
    BY <1>9, <2>1 DEF Swap, Typed, TypeOK
  <2> QED
    BY <1>7, <1>9, <2>2 DEF Swap, Quiet
<1>10. ASSUME NEW p \in Procs, Install(p)
       PROVE  Typed'
  <2>1. run[p].target \in Targets /\ ~At(p, "idle")
    BY <1>10 DEF Install, At, Typed, TypeOK, Run
  <2>2. recorded' \in [Caches -> SUBSET Targets]
    BY <1>10, <2>1 DEF Install, Typed, TypeOK
  <2> QED
    BY <1>10, <2>1, <2>2, LeaveStep DEF Install, Quiet
<1>11. ASSUME BecomeCalm \/ UNCHANGED vars
       PROVE  Typed'
  BY <1>11 DEF BecomeCalm, vars, cacheVars, Typed, TypeOK, Busy, Opened, At, File
<1>12. ASSUME NEW p \in Procs, Kill(p)
       PROVE  Typed'
  BY <1>1, <1>12 DEF Kill
<1> QED
  BY <1>3, <1>4, <1>5, <1>6, <1>8, <1>9, <1>10, <1>11, <1>12, Steps, BeginStep, ConnectStep,
     ReceiveStep, PublishStep, BrokenStep

-----------------------------------------------------------------------------
(* What the lock of a cache root protects *)

Locked == \A p \in Procs : ~At(p, "idle") => lock[run[p].cache] = p

\* A run at the same place that goes through the same files of the same sources.
Same(q) ==
  /\ pc'[q] = pc[q] /\ run'[q].cache = run[q].cache /\ run'[q].target = run[q].target
  /\ run'[q].source = run[q].source /\ run'[q].todo = run[q].todo
\* What is the run's own: its cache root.
Spared(c) == lock'[c] = lock[c] /\ kept'[c] = kept[c] /\ bundle'[c] = bundle[c]

\* Two runs have two cache roots.
LEMMA Apart ==
  ASSUME Locked, NEW p \in Procs, NEW q \in Procs \ {p}, ~At(p, "idle"), ~At(q, "idle")
  PROVE  run[p].cache # run[q].cache
BY DEF Locked

\* A step of one run leaves the others where they are.
LEMMA OthersStay ==
  ASSUME Typed, NEW p \in Procs, NEW q \in Procs \ {p}, ProcNext(p)
  PROVE  pc'[q] = pc[q]
<1>1. pc' = pc \/ \E label : pc' = [pc EXCEPT ![p] = label]
  <2>1. CASE Fetch(p) \/ Connect(p) \/ Receive(p) \/ Publish(p) \/ Hash(p)
    BY <2>1 DEF Fetch, Connect, Receive, Publish, Hash, Advance, Goto, Fail, Leave
  <2>2. CASE Verify(p) \/ Copy(p) \/ Extract(p) \/ Swap(p) \/ Install(p) \/ Kill(p)
    BY <2>2 DEF Verify, Copy, Extract, Swap, Install, Kill, Advance, Goto, Fail, Leave
  <2>3. CASE \/ Broken(p, "connect") \/ Broken(p, "receive")
             \/ \E c \in Caches, t \in Targets : OneShot(p, c, t) \/ Continue(p, c, t)
    BY <2>3 DEF Broken, OneShot, Continue, Begin
  <2> QED
    BY <2>1, <2>2, <2>3 DEF ProcNext, RunStep, DownloadStep, PrepareStep
<1> QED
  BY <1>1 DEF Typed, TypeOK

\* No step touches another run, or the cache root it has locked.
LEMMA Untouched ==
  ASSUME ReleaseCacheConstantsOK, Typed, Locked, NEW p \in Procs, NEW q \in Procs \ {p},
         ~At(q, "idle"), ProcNext(p)
  PROVE  Same(q) /\ Spared(run[q].cache)
<1> DEFINE c == run[q].cache
<1>0. lock[c] = q /\ (~At(p, "idle") => run[p].cache # c)
  BY Apart DEF Locked
<1>1. ASSUME Leave(p), ~At(p, "idle"), UNCHANGED <<kept, bundle>>
      PROVE  Same(q) /\ Spared(c)
  BY <1>0, <1>1 DEF Leave, Same, Spared, Typed, TypeOK
<1>2. ASSUME NEW from, Fail(p, from), ~At(p, "idle")
      PROVE  Same(q) /\ Spared(c)
  BY <1>1, <1>2 DEF Fail, cacheVars
<1>3. CASE \E d \in Caches, t \in Targets : OneShot(p, d, t) \/ Continue(p, d, t)
  <2>1. PICK d \in Caches, t \in Targets : \E source, label, list : Begin(p, d, t, source, label, list)
    BY <1>3 DEF OneShot, Continue
  <2>2. d # c
    BY <1>0, <2>1 DEF Begin, ReleaseCacheConstantsOK
  <2> QED
    BY <1>0, <2>1, <2>2 DEF Begin, cacheVars, Same, Spared, Typed, TypeOK
<1>4. CASE Fetch(p) \/ Connect(p) \/ Receive(p)
  BY <1>4 DEF Fetch, Advance, Goto, Connect, Receive, cacheVars, Same, Spared, Typed, TypeOK
<1>5. CASE Hash(p)
  <2>1. CASE Advance(p, "hash", "fetch", "verify", <<>>) /\ UNCHANGED cacheVars
    BY <2>1 DEF Advance, Goto, cacheVars, Same, Spared, Typed, TypeOK
  <2> QED
    BY <1>2, <1>5, <2>1 DEF Hash, At
<1>6. CASE Publish(p)
  <2>1. CASE part[File(p)] # None
    <3>1. /\ pc' = [pc EXCEPT ![p] = "hash"] /\ UNCHANGED <<lock, kept, bundle>>
          /\ run' = [Moved(File(p), Renamed) EXCEPT ![p].open = "none", ![p].offset = 0]
      BY <1>6, <2>1 DEF Publish, Goto, cacheVars
    <3>2. run'[q] = Moved(File(p), Renamed)[q] /\ pc'[q] = pc[q]
      BY <3>1, MovedTyped DEF Typed, TypeOK
    <3> QED
      BY <3>1, <3>2, MovedTyped DEF Same, Spared
  <2>2. CASE Leave(p) /\ UNCHANGED cacheVars /\ At(p, "receive")
    BY <1>1, <2>2 DEF cacheVars, At
  <2> QED
    BY <1>6, <2>1, <2>2 DEF Publish
<1>7. CASE Broken(p, "connect") \/ Broken(p, "receive")
  <2>1. /\ pc' = [pc EXCEPT ![p] = "idle"] /\ run' = [Moved(File(p), Removed) EXCEPT ![p] = None]
        /\ lock' = [lock EXCEPT ![run[p].cache] = None] /\ UNCHANGED <<kept, bundle>>
        /\ ~At(p, "idle")
    BY <1>7 DEF Broken, cacheVars, At
  <2>2. run'[q] = Moved(File(p), Removed)[q] /\ pc'[q] = pc[q]
    BY <2>1, MovedTyped DEF Typed, TypeOK
  <2>3. lock'[c] = lock[c]
    BY <1>0, <2>1 DEF Typed, TypeOK
  <2> QED
    BY <2>1, <2>2, <2>3, MovedTyped DEF Same, Spared
<1>8. CASE Verify(p)
  <2>1. CASE UNCHANGED <<cacheVars, lock>> /\ \E label, r : pc' = [pc EXCEPT ![p] = label] /\ run' = [run EXCEPT ![p] = r]
    BY <2>1 DEF cacheVars, Same, Spared, Typed, TypeOK
  <2>2. CASE At(p, "verify") /\ Fail(p, "verify")
    BY <1>2, <2>2 DEF At
  <2> QED
    BY <1>8, <2>1, <2>2 DEF Verify, Goto
<1>9. CASE Copy(p)
  <2>1. run[p].cache # c
    BY <1>0, <1>9 DEF Copy, At
  <2> QED
    BY <1>9, <2>1 DEF Copy, Advance, Goto, Same, Spared, Typed, TypeOK
<1>10. CASE Extract(p)
  <2>1. CASE At(p, "extract") /\ Fail(p, "extract")
    BY <1>2, <2>1 DEF At
  <2>2. CASE /\ Goto(p, "extract", "swap") /\ bundle' = [bundle EXCEPT ![run[p].cache] = None]
             /\ UNCHANGED <<kept, lock, run>>
    BY <1>0, <2>2 DEF Goto, At, Same, Spared, Typed, TypeOK
  <2> QED
    BY <1>10, <2>1, <2>2 DEF Extract
<1>11. CASE Swap(p)
  BY <1>0, <1>11 DEF Swap, Goto, At, Same, Spared, Typed, TypeOK
<1>12. CASE Install(p)
  BY <1>1, <1>12 DEF Install, At
<1>13. CASE Kill(p)
  BY <1>2, <1>13 DEF Kill
<1> QED
  BY <1>3, <1>4, <1>5, <1>6, <1>7, <1>8, <1>9, <1>10, <1>11, <1>12, <1>13
     DEF ProcNext, RunStep, DownloadStep, PrepareStep

\* A run that goes on stays with its cache root, target and source.
LEMMA Ongoing ==
  ASSUME Typed, NEW p \in Procs, ~At(p, "idle"), ProcNext(p), ~At(p, "idle")'
  PROVE  /\ run'[p].cache = run[p].cache /\ run'[p].target = run[p].target
         /\ run'[p].source = run[p].source /\ lock' = lock
<1>0. run[p] \in Run
  BY DEF Typed, TypeOK
<1>1. ~Leave(p)
  BY DEF Leave, Typed, TypeOK, At
<1>2. CASE Fetch(p) \/ Connect(p) \/ Receive(p) \/ Hash(p) \/ Verify(p)
  BY <1>0, <1>1, <1>2 DEF Fetch, Connect, Receive, Hash, Verify, Advance, Goto, Fail, Typed, TypeOK, Run
<1>3. CASE Publish(p)
  <2>1. /\ run' = [Moved(File(p), Renamed) EXCEPT ![p].open = "none", ![p].offset = 0]
        /\ lock' = lock
    BY <1>1, <1>3 DEF Publish
  <2> QED
    BY <2>1, MovedTyped DEF Run
<1>4. CASE Copy(p) \/ Extract(p) \/ Swap(p)
  BY <1>0, <1>1, <1>4 DEF Copy, Extract, Swap, Advance, Goto, Fail, Typed, TypeOK, Run
<1>5. CASE Install(p) \/ Kill(p)
  BY <1>1, <1>5 DEF Install, Kill, Fail
<1>6. ~Broken(p, "connect") /\ ~Broken(p, "receive")
  BY DEF Broken, Typed, TypeOK, At
<1>7. ~ \E c \in Caches, t \in Targets : OneShot(p, c, t) \/ Continue(p, c, t)
  BY DEF OneShot, Continue, Begin
<1> QED
  BY <1>2, <1>3, <1>4, <1>5, <1>6, <1>7 DEF ProcNext, RunStep, DownloadStep, PrepareStep

\* Each run keeps the lock of its cache root to itself.
LEMMA LockedStep ==
  ASSUME ReleaseCacheConstantsOK, Typed, Locked, [Next]_vars
  PROVE  Locked'
<1>1. ASSUME NEW p \in Procs, ProcNext(p), NEW q \in Procs, ~At(q, "idle")'
      PROVE  lock'[run'[q].cache] = q
  <2>1. CASE q # p
    <3>1. ~At(q, "idle")
      BY <1>1, <2>1, OthersStay DEF At
    <3> QED
      BY <1>1, <2>1, <3>1, Untouched DEF Locked, Same, Spared
  <2>2. CASE q = p /\ ~At(p, "idle")
    BY <1>1, <2>2, Ongoing DEF Locked
  <2>3. CASE q = p /\ At(p, "idle")
    <3>1. PICK c \in Caches : lock' = [lock EXCEPT ![c] = p] /\ run'[p].cache = c
      <4>1. \E c \in Caches, t \in Targets : OneShot(p, c, t) \/ Continue(p, c, t)
        BY <1>1, <2>3 DEF ProcNext, RunStep, DownloadStep, PrepareStep, Fetch, Connect, Receive, Publish,
           Hash, Verify, Copy, Extract, Swap, Install, Broken, Kill, Goto, At
      <4> QED
        BY <4>1 DEF OneShot, Continue, Begin, Typed, TypeOK
    <3> QED
      BY <2>3, <3>1 DEF Typed, TypeOK
  <2> QED
    BY <2>1, <2>2, <2>3
<1>2. CASE BecomeCalm \/ UNCHANGED vars
  BY <1>2 DEF BecomeCalm, vars, Locked, At
<1> QED
  BY <1>1, <1>2 DEF Next, Locked

-----------------------------------------------------------------------------
(* The bundle a run installs *)

\* Only the run that holds the lock changes the bundle directory it installs from.
LEMMA OwnStep ==
  ASSUME ReleaseCacheConstantsOK, Typed, Locked, InstallsOwnBundle, [Next]_vars
  PROVE  InstallsOwnBundle'
<1>1. ASSUME NEW p \in Procs, ProcNext(p), NEW q \in Procs, At(q, "use")'
      PROVE  bundle'[run'[q].cache] = run'[q].target
  <2>1. CASE q # p
    <3>1. At(q, "use") /\ ~At(q, "idle")
      BY <1>1, <2>1, OthersStay DEF At
    <3> QED
      BY <1>1, <2>1, <3>1, Untouched DEF InstallsOwnBundle, Same, Spared
  <2>2. CASE q = p
    <3>1. Swap(p)
      <4>1. ~(Fetch(p) \/ Connect(p) \/ Receive(p) \/ Publish(p) \/ Hash(p))
        BY <1>1, <2>2 DEF Fetch, Connect, Receive, Publish, Hash, Advance, Goto, Fail, Leave, Typed,
           TypeOK, At
      <4>2. ~(Verify(p) \/ Copy(p) \/ Extract(p) \/ Install(p) \/ Kill(p))
        BY <1>1, <2>2 DEF Verify, Copy, Extract, Install, Kill, Advance, Goto, Fail, Leave, Typed,
           TypeOK, At
      <4>3. ~(Broken(p, "connect") \/ Broken(p, "receive"))
        BY <1>1, <2>2 DEF Broken, Typed, TypeOK, At
      <4>4. ~ \E c \in Caches, t \in Targets : OneShot(p, c, t) \/ Continue(p, c, t)
        BY <1>1, <2>2 DEF OneShot, Continue, Begin, Typed, TypeOK, At
      <4> QED
        BY <1>1, <4>1, <4>2, <4>3, <4>4 DEF ProcNext, RunStep, DownloadStep, PrepareStep
    <3>2. run[p] \in Run
      BY <3>1 DEF Swap, Goto, Typed, TypeOK, At
    <3> QED
      BY <2>2, <3>1, <3>2 DEF Swap, Typed, TypeOK, Run
  <2> QED
    BY <2>1, <2>2
<1>2. CASE BecomeCalm \/ UNCHANGED vars
  BY <1>2 DEF BecomeCalm, vars, cacheVars, InstallsOwnBundle, At
<1> QED
  BY <1>1, <1>2 DEF Next, InstallsOwnBundle

-----------------------------------------------------------------------------
(* The cache kept for continuations *)

\* What a run copies is whole, and what it has copied and found is all there, unless the
\* download directory was changed under it.
CopiesWhole(p) ==
  At(p, "copy") =>
    /\ run[p].source # "kept"
    /\ run[p].source = "down" /\ run[p].cache \notin changed =>
         \A k \in Kinds : Download(<<run[p].target, k>>) = Whole
KeepsWhole(p) ==
  pc[p] \in {"copy", "extract", "swap", "use"} /\ run[p].cache \notin changed =>
    \A k \in Kinds : \/ kept[run[p].cache][<<run[p].target, k>>] = Whole
                    \/ (At(p, "copy") /\ Contains(run[p].todo, k))
Prepared == \A p \in Procs : CopiesWhole(p) /\ KeepsWhole(p)

\* Blocks are only added to a file that is not replaced; and whose file is replaced while
\* it copies is marked.
LEMMA DownloadStays ==
  ASSUME ReleaseCacheConstantsOK, Typed, Locked, NEW p \in Procs, NEW q \in Procs \ {p},
         At(q, "copy"), run[q].source = "down", run[q].cache \notin changed', ProcNext(p),
         NEW f \in Files, Download(f) = Whole
  PROVE  run[q].cache \notin changed /\ Download(f)' = Whole
<1>1. CASE Receive(p)
  <2>1. changed' = changed /\ 0 < Blocks /\ (file[f] = Whole => file'[f] = Whole)
    BY <1>1, ReceiveStep DEF Receive, Quiet
  <2>2. Whole # {}
    BY <2>1 DEF Whole, ReleaseCacheConstantsOK
  <2>3. file[f] = Whole /\ file[f] # None
    BY <2>2 DEF Download
  <2> QED
    BY <2>1, <2>3 DEF Download
<1>2. CASE Publish(p)
  <2>1. part[File(p)] = None
    <3>1. ASSUME part[File(p)] # None
          PROVE  FALSE
      BY <1>2, <3>1 DEF Publish, Readers
    <3> QED
      BY <3>1
  <2> QED
    BY <1>2, <2>1 DEF Publish, Download
<1>3. CASE file' = file /\ changed' = changed
  BY <1>3 DEF Download
<1>4. CASE Fetch(p) \/ Connect(p) \/ Hash(p) \/ Verify(p) \/ Copy(p) \/ Extract(p) \/ Swap(p)
  BY <1>3, <1>4 DEF Fetch, Connect, Hash, Verify, Copy, Extract, Swap, Fail, Quiet
<1>5. CASE \/ Install(p) \/ Kill(p) \/ Broken(p, "connect") \/ Broken(p, "receive")
           \/ \E c \in Caches, t \in Targets : OneShot(p, c, t) \/ Continue(p, c, t)
  BY <1>3, <1>5 DEF Install, Kill, Broken, OneShot, Continue, Begin, Fail, Quiet
<1> QED
  BY <1>1, <1>2, <1>4, <1>5 DEF ProcNext, RunStep, DownloadStep, PrepareStep

\* A run that is not preparing has nothing to say of its cache.
LEMMA Elsewhere ==
  ASSUME Typed, NEW p \in Procs, ProcNext(p), ~Verify(p), ~Copy(p), ~Extract(p), ~Swap(p)
  PROVE  pc'[p] \notin {"copy", "extract", "swap", "use"}
<1>1. CASE Fetch(p) \/ Connect(p) \/ Receive(p) \/ Publish(p) \/ Hash(p)
  BY <1>1 DEF Fetch, Connect, Receive, Publish, Hash, Advance, Goto, Fail, Leave, Typed, TypeOK, At
<1>2. CASE \/ Install(p) \/ Kill(p) \/ Broken(p, "connect") \/ Broken(p, "receive")
  BY <1>2 DEF Install, Kill, Broken, Fail, Leave, Typed, TypeOK
<1>3. CASE \E c \in Caches, t \in Targets : OneShot(p, c, t) \/ Continue(p, c, t)
  BY <1>3 DEF OneShot, Continue, Begin, Typed, TypeOK
<1> QED
  BY <1>1, <1>2, <1>3 DEF ProcNext, RunStep, DownloadStep, PrepareStep

\* A run prepares its cache whole.
LEMMA PreparedStep ==
  ASSUME ReleaseCacheConstantsOK, Typed, Locked, Prepared, [Next]_vars
  PROVE  Prepared'
<1>1. ASSUME NEW p \in Procs, ProcNext(p), NEW q \in Procs \ {p}
      PROVE  CopiesWhole(q)' /\ KeepsWhole(q)'
  <2>0. pc'[q] = pc[q]
    BY <1>1, OthersStay
  <2>1. CASE pc[q] \notin {"copy", "extract", "swap", "use"}
    BY <2>0, <2>1 DEF CopiesWhole, KeepsWhole, At
  <2>2. CASE pc[q] \in {"copy", "extract", "swap", "use"}
    <3>1. ~At(q, "idle") /\ Same(q) /\ Spared(run[q].cache) /\ run[q] \in Run
      BY <1>1, <2>2, Untouched DEF At, Typed, TypeOK
    <3>2. changed \subseteq changed'
      BY <1>1 DEF ProcNext, RunStep, DownloadStep, PrepareStep, Fetch, Connect, Receive, Publish, Hash,
         Verify, Copy, Extract, Swap, Install, Broken, Kill, Fail, OneShot, Continue, Begin, Quiet
    <3>3. KeepsWhole(q)'
      BY <2>2, <3>1, <3>2 DEF Prepared, KeepsWhole, Same, Spared, At
    <3>4. CopiesWhole(q)'
      <4>1. CASE ~(At(q, "copy") /\ run[q].source = "down" /\ run[q].cache \notin changed')
        BY <3>1, <4>1 DEF CopiesWhole, Same, At, Prepared
      <4>2. CASE At(q, "copy") /\ run[q].source = "down" /\ run[q].cache \notin changed'
        <5>1. \A k \in Kinds : <<run[q].target, k>> \in Files /\ Download(<<run[q].target, k>>) = Whole
          BY <3>1, <3>2, <4>2 DEF Prepared, CopiesWhole, Files, Run
        <5>2. \A f \in Files : Download(f) = Whole => Download(f)' = Whole
          BY <1>1, <4>2, DownloadStays
        <5>3. \A k \in Kinds : Download(<<run[q].target, k>>)' = Whole
          BY <3>1, <5>1, <5>2 DEF Same, Download
        <5> QED
          BY <3>1, <4>2, <5>3 DEF CopiesWhole, Same, At
      <4> QED
        BY <4>1, <4>2
    <3> QED
      BY <3>3, <3>4
  <2> QED
    BY <2>1, <2>2
<1>2. ASSUME NEW p \in Procs, Verify(p)
      PROVE  CopiesWhole(p)' /\ KeepsWhole(p)'
  <2>1. CASE At(p, "verify") /\ Fail(p, "verify")
    BY <2>1 DEF Fail, Leave, Typed, TypeOK, CopiesWhole, KeepsWhole, At
  <2>2. CASE Usable(p) /\ Goto(p, "verify", IF run[p].source = "kept" THEN "extract" ELSE "copy")
    <3> DEFINE list == IF run[p].source = "kept" THEN <<>> ELSE Listed \o <<"sums">>
    <3>1. run[p] \in Run /\ run[p].target \in Targets
      BY <2>2 DEF Goto, Typed, TypeOK, At, Run
    <3>2. /\ run' = [run EXCEPT ![p].todo = list] /\ UNCHANGED <<file, kept, changed>>
          /\ pc'[p] = IF run[p].source = "kept" THEN "extract" ELSE "copy"
      BY <1>2, <2>2 DEF Verify, Goto, Fail, Leave, At, Typed, TypeOK, cacheVars, Quiet
    <3>3. /\ run'[p].todo = list /\ run'[p].source = run[p].source
          /\ run'[p].cache = run[p].cache /\ run'[p].target = run[p].target
      BY <3>1, <3>2 DEF Typed, TypeOK, Run
    <3>4. \A k \in Kinds : Source(p, <<run[p].target, k>>) = Whole
      BY <2>2 DEF Usable, Good
    <3>5. CopiesWhole(p)'
      BY <3>2, <3>3, <3>4 DEF CopiesWhole, At, Source, Download
    <3>6. CASE run[p].source = "kept"
      BY <3>2, <3>3, <3>4, <3>5, <3>6 DEF KeepsWhole, At, Source, Kept
    <3>7. CASE run[p].source # "kept"
      BY <3>2, <3>3, <3>5, <3>7, Lists DEF KeepsWhole, At
    <3> QED
      BY <3>5, <3>6, <3>7
  <2> QED
    BY <1>2, <2>1, <2>2 DEF Verify
<1>3. ASSUME NEW p \in Procs, Copy(p)
      PROVE  CopiesWhole(p)' /\ KeepsWhole(p)'
  <2> DEFINE c == run[p].cache  rest == Tail(run[p].todo)
  <2>1. /\ run[p] \in Run /\ At(p, "copy") /\ File(p) \in Files /\ Head(run[p].todo) \in Kinds
        /\ run[p].todo \in Seq(Kinds) /\ run[p].todo # <<>>
    BY <1>3, FileTyped DEF Copy, At, Typed, Busy, Run
  <2>2. /\ run'[p].cache = c /\ run'[p].target = run[p].target /\ run'[p].source = run[p].source
        /\ run'[p].todo = rest /\ pc'[p] = IF rest = <<>> THEN "extract" ELSE "copy"
    BY <1>3, <2>1 DEF Copy, Advance, Goto, Typed, TypeOK, Run
  <2>3. /\ UNCHANGED <<file, changed>>
        /\ kept' = [kept EXCEPT ![c][File(p)] = Source(p, File(p))]
    BY <1>3 DEF Copy, Quiet
  <2>4. CopiesWhole(p)'
    BY <2>1, <2>2, <2>3 DEF Prepared, CopiesWhole, At, Download
  <2>5. ASSUME c \notin changed, NEW k \in Kinds
        PROVE  kept'[c][<<run[p].target, k>>] = Whole \/ Contains(rest, k)
    <3>1. Source(p, File(p)) = Whole
      <4>1. run[p].source \in {"local", "down"} /\ File(p) = <<run[p].target, Head(run[p].todo)>>
        BY <2>1 DEF Prepared, CopiesWhole, Run, Sources, File
      <4> QED
        BY <2>1, <2>5, <4>1 DEF Prepared, CopiesWhole, Source
    <3>2. <<run[p].target, k>> \in Files /\ c \in Caches
      BY <2>1 DEF Files, Run
    <3>3. CASE k = Head(run[p].todo)
      BY <2>3, <3>1, <3>2, <3>3 DEF Typed, TypeOK, File
    <3>4. CASE k # Head(run[p].todo) /\ kept[c][<<run[p].target, k>>] = Whole
      BY <2>3, <3>1, <3>2, <3>4 DEF Typed, TypeOK
    <3>5. CASE k # Head(run[p].todo) /\ Contains(run[p].todo, k)
      BY <2>1, <3>5, HeadOrTail
    <3> QED
      BY <2>1, <2>5, <3>3, <3>4, <3>5 DEF Prepared, KeepsWhole, At
  <2>6. rest = <<>> => ~ \E k : Contains(rest, k)
    BY <2>1, HeadOrTail
  <2>7. KeepsWhole(p)'
    BY <2>2, <2>3, <2>5, <2>6 DEF KeepsWhole, At
  <2> QED
    BY <2>4, <2>7
<1>4. ASSUME NEW p \in Procs, Extract(p) \/ Swap(p)
      PROVE  CopiesWhole(p)' /\ KeepsWhole(p)'
  <2>1. CASE At(p, "extract") /\ Fail(p, "extract")
    BY <2>1 DEF Fail, Leave, Typed, TypeOK, CopiesWhole, KeepsWhole, At
  <2>2. CASE /\ pc[p] \in {"extract", "swap"} /\ pc'[p] \in {"swap", "use"}
             /\ UNCHANGED <<kept, run, changed>>
    BY <2>2 DEF Prepared, CopiesWhole, KeepsWhole, At
  <2> QED
    BY <1>4, <2>1, <2>2 DEF Extract, Swap, Goto, Quiet, At, Typed, TypeOK
<1>5. ASSUME NEW p \in Procs, ProcNext(p)
      PROVE  CopiesWhole(p)' /\ KeepsWhole(p)'
  <2>1. CASE ~Verify(p) /\ ~Copy(p) /\ ~Extract(p) /\ ~Swap(p)
    BY <1>5, <2>1, Elsewhere DEF CopiesWhole, KeepsWhole, At
  <2> QED
    BY <1>2, <1>3, <1>4, <2>1
<1>6. CASE BecomeCalm \/ UNCHANGED vars
  BY <1>6 DEF BecomeCalm, vars, cacheVars, Prepared, CopiesWhole, KeepsWhole, At, Download
<1> QED
  BY <1>1, <1>5, <1>6 DEF Next, Prepared

\* A recorded bundle's files are only copied over by whole ones.
LEMMA KeptStep ==
  ASSUME ReleaseCacheConstantsOK, Typed, Prepared, KeptForContinuation, [Next]_vars
  PROVE  KeptForContinuation'
<1>1. ASSUME NEW p \in Procs, Copy(p)
      PROVE  KeptForContinuation'
  <2> DEFINE c == run[p].cache
  <2>1. /\ run[p] \in Run /\ At(p, "copy") /\ File(p) \in Files /\ c \in Caches
        /\ Head(run[p].todo) \in Kinds
    BY <1>1, FileTyped DEF Copy, At, Run
  <2>2. /\ kept' = [kept EXCEPT ![c][File(p)] = Source(p, File(p))]
        /\ UNCHANGED <<recorded, changed>>
    BY <1>1 DEF Copy, Quiet
  <2>3. c \notin changed => Source(p, File(p)) = Whole
    <3>1. run[p].source \in {"local", "down"} /\ File(p) = <<run[p].target, Head(run[p].todo)>>
      BY <2>1 DEF Prepared, CopiesWhole, Run, Sources, File
    <3> QED
      BY <2>1, <3>1 DEF Prepared, CopiesWhole, Source
  <2>4. ASSUME NEW d \in Caches \ changed, NEW f \in Files, kept[d][f] = Whole
        PROVE  kept'[d][f] = Whole
    BY <2>1, <2>2, <2>3, <2>4 DEF Typed, TypeOK
  <2>5. ASSUME NEW d \in Caches, NEW t \in recorded[d], NEW k \in Kinds
        PROVE  <<t, k>> \in Files
    BY <2>5 DEF Typed, TypeOK, Files
  <2> QED
    <3>1. ASSUME NEW d \in Caches \ changed, NEW t \in recorded[d], NEW k \in Kinds
          PROVE  kept'[d][<<t, k>>] = Whole
      <4>1. <<t, k>> \in Files /\ kept[d][<<t, k>>] = Whole
        BY <2>5, <3>1 DEF KeptForContinuation
      <4> QED
        BY <2>4, <3>1, <4>1
    <3> QED
      BY <2>2, <3>1 DEF KeptForContinuation
<1>2. ASSUME NEW p \in Procs, Install(p)
      PROVE  KeptForContinuation'
  <2> DEFINE c == run[p].cache
  <2>1. /\ run[p] \in Run /\ At(p, "use") /\ UNCHANGED <<kept, changed>>
        /\ recorded' = [recorded EXCEPT ![c] = @ \cup {run[p].target}]
    BY <1>2 DEF Install, At, Quiet, Typed, TypeOK
  <2>2. c \notin changed => \A k \in Kinds : kept[c][<<run[p].target, k>>] = Whole
    BY <2>1 DEF Prepared, KeepsWhole, At
  <2>3. ASSUME NEW d \in Caches \ changed, NEW t \in recorded'[d], NEW k \in Kinds
        PROVE  kept[d][<<t, k>>] = Whole
    <3>1. t \in recorded[d] \/ (d = c /\ t = run[p].target)
      BY <2>1, <2>3 DEF Typed, TypeOK
    <3> QED
      BY <2>2, <2>3, <3>1 DEF KeptForContinuation
  <2>4. ASSUME NEW d \in Caches \ changed', NEW t \in recorded'[d], NEW k \in Kinds
        PROVE  kept'[d][<<t, k>>] = Whole
    <3>1. changed' = changed /\ kept' = kept
      BY <2>1
    <3> QED
      BY <2>3, <2>4, <3>1
  <2> QED
    BY <2>4 DEF KeptForContinuation
<1>3. CASE UNCHANGED <<kept, recorded>> /\ changed \subseteq changed'
  BY <1>3 DEF KeptForContinuation
<1>4. ASSUME NEW p \in Procs,
             Fetch(p) \/ Connect(p) \/ Receive(p) \/ Publish(p) \/ Hash(p)
      PROVE  KeptForContinuation'
  BY <1>3, <1>4 DEF Fetch, Connect, Receive, Publish, Hash, Fail, cacheVars, Quiet
<1>5. ASSUME NEW p \in Procs, Verify(p) \/ Extract(p) \/ Swap(p) \/ Kill(p)
      PROVE  KeptForContinuation'
  BY <1>3, <1>5 DEF Verify, Extract, Swap, Kill, Fail, cacheVars, Quiet
<1>6. ASSUME NEW p \in Procs,
             \/ Broken(p, "connect") \/ Broken(p, "receive")
             \/ \E c \in Caches, t \in Targets : OneShot(p, c, t) \/ Continue(p, c, t)
      PROVE  KeptForContinuation'
  BY <1>3, <1>6 DEF Broken, OneShot, Continue, Begin, cacheVars, Quiet
<1>7. CASE BecomeCalm \/ UNCHANGED vars
  BY <1>3, <1>7 DEF BecomeCalm, vars, cacheVars
<1> QED
  BY <1>1, <1>2, <1>4, <1>5, <1>6, <1>7, Steps

-----------------------------------------------------------------------------
(* The theorems *)

ReleaseInv == Typed /\ Locked /\ InstallsOwnBundle /\ Prepared /\ KeptForContinuation

\* At first nothing is downloaded, kept or running.
LEMMA ReleaseInvInit ==
  ASSUME Init
  PROVE  ReleaseInv
<1>1. TypeOK
  <2>1. \A p \in Procs : IF At(p, "idle") THEN run[p] = None ELSE run[p] \in Run
    BY DEF Init, At
  <2> QED
    BY <2>1 DEF Init, TypeOK, Content
<1>2. \A p \in Procs : Busy(p) /\ Opened(p)
  BY DEF Init, Busy, Opened, At, Downloading
<1>3. Locked /\ InstallsOwnBundle /\ Prepared /\ KeptForContinuation
  BY DEF Init, Locked, InstallsOwnBundle, Prepared, CopiesWhole, KeepsWhole, KeptForContinuation, At
<1> QED
  BY <1>1, <1>2, <1>3 DEF ReleaseInv, Typed

\* Downloads, caches and runs keep their types, and what ReleaseInv says of them.
THEOREM ReleaseCacheSafe == Spec => []ReleaseInv
<1>1. Init => ReleaseInv
  BY ReleaseInvInit
<1>2. ReleaseInv /\ [Next]_vars => ReleaseInv'
  BY ReleaseCacheConstantsOK, TypedStep, LockedStep, OwnStep, PreparedStep, KeptStep DEF ReleaseInv
<1> QED
  BY <1>1, <1>2, PTL DEF Spec

\* For any number of runs, cache roots and targets: a run that installs has its own
\* target's bundle before it.
THEOREM OwnBundle == Spec => []InstallsOwnBundle
<1>1. ReleaseInv => InstallsOwnBundle
  BY DEF ReleaseInv
<1> QED
  BY <1>1, ReleaseCacheSafe, PTL

\* For any number of runs, cache roots and targets: a cache that no run changed under
\* another keeps whole what a state file names.
THEOREM ContinuationsKept == Spec => []KeptForContinuation
<1>1. ReleaseInv => KeptForContinuation
  BY DEF ReleaseInv
<1> QED
  BY <1>1, ReleaseCacheSafe, PTL

\* For any number of runs: a whole file of the download directory is only ever replaced by
\* publishing another, never written into or emptied.
THEOREM AcceptedStaysWhole == Spec => AcceptedStays
<1>1. ASSUME Typed, [Next]_vars, NEW f \in Files, file[f] = Whole, file'[f] # Whole
      PROVE  \E p \in Procs : Publish(p)
  <2>1. ~ \E p \in Procs : Receive(p)
    BY <1>1, ReleaseCacheConstantsOK, ReceiveStep
  <2>2. file' # file
    BY <1>1
  <2>3. ~ \E p \in Procs : Fetch(p) \/ Connect(p) \/ Hash(p) \/ Verify(p) \/ Copy(p) \/ Extract(p)
    BY <2>2 DEF Fetch, Connect, Hash, Verify, Copy, Extract, Fail
  <2>4. ~ \E p \in Procs : \/ Swap(p) \/ Install(p) \/ Kill(p)
                          \/ Broken(p, "connect") \/ Broken(p, "receive")
    BY <2>2 DEF Swap, Install, Kill, Broken, Fail
  <2>5. ~ \E p \in Procs, c \in Caches, t \in Targets : OneShot(p, c, t) \/ Continue(p, c, t)
    BY <2>2 DEF OneShot, Continue, Begin
  <2>6. ~BecomeCalm /\ ~UNCHANGED vars
    BY <2>2 DEF BecomeCalm, vars
  <2> QED
    BY <1>1, <2>1, <2>3, <2>4, <2>5, <2>6, Steps
<1>2. ReleaseInv /\ [Next]_vars =>
        [\A f \in Files : file[f] = Whole /\ file'[f] # Whole => \E p \in Procs : Publish(p)]_vars
  BY <1>1 DEF ReleaseInv
<1> QED
  BY <1>2, ReleaseCacheSafe, PTL DEF Spec, AcceptedStays
=============================================================================
