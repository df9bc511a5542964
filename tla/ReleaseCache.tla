---------------------------- MODULE ReleaseCache ----------------------------
(***************************************************************************)
(* How tools/libreecho-install.py gets a release onto the host: the         *)
(* downloads, the copy each cache root keeps for continuations, and the     *)
(* bundle directory boot images and features are taken from.                *)
(*                                                                          *)
(* All files are those of one tag.  A run locks its cache root; the         *)
(* download directory belongs to none, and runs with different cache roots  *)
(* share it by default.  Runs that download the same file write under the   *)
(* same temporary name; a run goes on writing a file that was opened under  *)
(* that name and has been renamed or removed since.                         *)
(***************************************************************************)
EXTENDS Naturals, Sequences

CONSTANTS
  Targets,       \* boards the tag is built for
  Listed,        \* the files SHA256SUMS lists, in its order, the same for each target
  Bundle,        \* the asset that is the initial-install.tar
  Blocks,        \* the length of a file
  Procs,         \* invocations that may be alive at the same time
  Caches,        \* --cache-root values
  DefaultCache,  \* the cache root that holds the download root, as DIR/downloads
  None

ASSUME ReleaseCacheConstantsOK ==
  /\ Listed \in Seq(STRING \ {"sums"}) /\ \E n \in 1 .. Len(Listed) : Listed[n] = Bundle
  /\ Blocks \in Nat /\ None \notin Procs \cup Targets
  /\ DefaultCache \in Caches

VARIABLES
  file,      \* the download directory: the blocks of each file, or None
  part,      \* the same of each file's .part
  kept,      \* each cache root's TAG/downloads: the blocks of each file
  bundle,    \* each cache root's TAG/bundle: the target whose bundle is there
  recorded,  \* the targets for which a state file names each cache root's bundle
  lock,      \* who holds each cache root's .lock
  pc, run,   \* each invocation's next step and its locals
  changed,   \* history: caches for which a source was replaced while they read it
  calm       \* TRUE once the network works and runs are no longer killed or mixed

cacheVars == <<kept, bundle, recorded>>
vars == <<file, part, kept, bundle, recorded, lock, pc, run, changed, calm>>

Kinds == {Listed[n] : n \in 1 .. Len(Listed)} \cup {"sums"}
Files == Targets \X Kinds
Content == SUBSET (1 .. Blocks)
Whole == 1 .. Blocks
\* source "local" is --release-dir, which the operator leaves alone.
Sources == {"local", "down", "kept"}
\* A run: cache root, target, source, the files it still has to go through, where the file
\* it has open for writing is found by now, and how much of it the run has written.
Run == [cache : Caches, target : Targets, source : Sources, todo : Seq(Kinds),
        open : {"none", "part", "file", "removed"}, offset : 0 .. Blocks]
Downloading == {"fetch", "connect", "receive", "hash"}
Preparing == {"verify", "copy", "extract", "swap"}

Init ==
  /\ file = [f \in Files |-> None] /\ part = [f \in Files |-> None]
  /\ kept = [c \in Caches |-> [f \in Files |-> {}]]
  /\ bundle = [c \in Caches |-> None]
  /\ recorded = [c \in Caches |-> {}]
  /\ lock = [c \in Caches |-> None]
  /\ pc = [p \in Procs |-> "idle"] /\ run = [p \in Procs |-> None]
  /\ changed = {} /\ calm = FALSE

At(p, label) == pc[p] = label
Goto(p, from, to) == At(p, from) /\ pc' = [pc EXCEPT ![p] = to]
Kept(p) == kept[run[p].cache]
File(p) == <<run[p].target, Head(run[p].todo)>>

Leave(p) ==
  /\ pc' = [pc EXCEPT ![p] = "idle"] /\ run' = [run EXCEPT ![p] = None]
  /\ lock' = [lock EXCEPT ![run[p].cache] = None]
Quiet == UNCHANGED <<changed, calm>>
Fail(p, from) ==
  At(p, from) /\ Leave(p) /\ UNCHANGED <<file, part, cacheVars, changed, calm>>

\* The next file, or the next stage once all are done.
Advance(p, from, again, done, list) ==
  LET rest == Tail(run[p].todo)
  IN  /\ Goto(p, from, IF rest = <<>> THEN done ELSE again)
      /\ run' = [run EXCEPT ![p].todo = IF rest = <<>> THEN list ELSE rest]
      /\ UNCHANGED lock

\* What a run reads under a name: a missing file has no blocks.
Download(f) == IF file[f] = None THEN {} ELSE file[f]
Source(p, f) ==
  CASE run[p].source = "local" -> Whole
    [] run[p].source = "down" -> Download(f)
    [] run[p].source = "kept" -> Kept(p)[f]
\* The digest, or for SHA256SUMS its syntax and completeness.
Good(content) == content = Whole

-----------------------------------------------------------------------------
(* Faults *)

BeginUnlocked(p, c, t, source, label, list) ==   \* the lock is not looked at
  /\ At(p, "idle") /\ (calm => \A q \in Procs : At(q, "idle"))
  /\ pc' = [pc EXCEPT ![p] = label]
  /\ run' = [run EXCEPT ![p] = [cache |-> c, target |-> t, source |-> source, todo |-> list,
                               open |-> "none", offset |-> 0]]
  /\ lock' = [lock EXCEPT ![c] = p]
  /\ UNCHANGED <<file, part, cacheVars, changed, calm>>
ConnectInPlace(p) ==       \* the download opens the final name
  /\ Goto(p, "connect", "receive")
  /\ part' = [part EXCEPT ![File(p)] = {}] /\ file' = [file EXCEPT ![File(p)] = {}]
  /\ run' = [run EXCEPT ![p].open = "part", ![p].offset = 0]
  /\ UNCHANGED <<cacheVars, lock>> /\ Quiet
ConnectExclusive(p) ==     \* a temporary file that exists is an error
  \/ /\ Goto(p, "connect", "receive") /\ part[File(p)] = None
     /\ part' = [part EXCEPT ![File(p)] = {}]
     /\ run' = [run EXCEPT ![p].open = "part", ![p].offset = 0]
     /\ UNCHANGED <<file, cacheVars, lock>> /\ Quiet
  \/ At(p, "connect") /\ part[File(p)] # None /\ Fail(p, "connect")
BundleUsable(p) == Good(Source(p, <<run[p].target, Bundle>>))   \* only the bundle is hashed
-----------------------------------------------------------------------------
(* Commands *)

Alone == \A p \in Procs : At(p, "idle")
Begin(p, c, t, source, label, list) ==
  /\ At(p, "idle") /\ lock[c] = None /\ (calm => Alone)
  /\ pc' = [pc EXCEPT ![p] = label]
  /\ run' = [run EXCEPT ![p] = [cache |-> c, target |-> t, source |-> source, todo |-> list,
                               open |-> "none", offset |-> 0]]
  /\ lock' = [lock EXCEPT ![c] = p]
  /\ UNCHANGED <<file, part, cacheVars, changed, calm>>

\* one-shot downloads the release, or takes it from --release-dir.
OneShot(p, c, t) ==
  \/ Begin(p, c, t, "local", "verify", <<>>)
  \/ Begin(p, c, t, "down", "fetch", <<"sums">> \o Listed)

\* continue-one-shot prefers a download directory that is not empty, though the cache
\* kept under the tag may be all it needs.
Populated == \E f \in Files : file[f] # None \/ part[f] # None
Origin(c) == IF c = DefaultCache /\ Populated THEN "down" ELSE "kept"
Continue(p, c, t) ==
  /\ t \in recorded[c]
  /\ Begin(p, c, t, Origin(c), "verify", <<>>)

-----------------------------------------------------------------------------
(* download_release and _download_url *)

\* SHA256SUMS is always fetched, an asset unless it is there and right.
Fetch(p) ==
  /\ At(p, "fetch")
  /\ IF Head(run[p].todo) # "sums" /\ Good(Download(File(p)))
     THEN Advance(p, "fetch", "fetch", "verify", <<>>)
     ELSE Goto(p, "fetch", "connect") /\ UNCHANGED <<run, lock>>
  /\ UNCHANGED <<file, part, cacheVars>> /\ Quiet

\* The runs that write one of a file's names find their file elsewhere, or nowhere.
Writers(f) == {p \in Procs : At(p, "receive") /\ File(p) = f}
Moved(f, name) ==
  [p \in Procs |-> IF p \in Writers(f) THEN [run[p] EXCEPT !.open = name[@]] ELSE run[p]]
Renamed == [part |-> "file", file |-> "removed", removed |-> "removed"]
Removed == [part |-> "removed", file |-> "file", removed |-> "removed"]

\* An error removes the temporary file, whoever writes it.
Broken(p, from) ==
  /\ At(p, from) /\ ~calm
  /\ part' = [part EXCEPT ![File(p)] = None]
  /\ pc' = [pc EXCEPT ![p] = "idle"] /\ lock' = [lock EXCEPT ![run[p].cache] = None]
  /\ run' = [Moved(File(p), Removed) EXCEPT ![p] = None]
  /\ UNCHANGED <<file, cacheVars>> /\ Quiet

\* Opening for writing empties the file another run may be writing.
Connect(p) ==
  /\ Goto(p, "connect", "receive")
  /\ part' = [part EXCEPT ![File(p)] = {}]
  /\ run' = [run EXCEPT ![p].open = "part", ![p].offset = 0]
  /\ UNCHANGED <<file, cacheVars, lock>> /\ Quiet

Receive(p) ==
  LET block == {run[p].offset + 1}
  IN  /\ At(p, "receive") /\ run[p].offset < Blocks
      /\ run' = [run EXCEPT ![p].offset = @ + 1]
      /\ part' = IF run[p].open = "part" THEN [part EXCEPT ![File(p)] = @ \cup block] ELSE part
      /\ file' = IF run[p].open = "file" THEN [file EXCEPT ![File(p)] = @ \cup block] ELSE file
      /\ UNCHANGED <<cacheVars, lock, pc>> /\ Quiet

\* The cache roots of runs that have hashed the download directory and are copying it.
Readers(p) ==
  {run[q].cache : q \in {q \in Procs \ {p} : At(q, "copy") /\ run[q].source = "down"}}
\* The answer has ended, which a lost connection may bring about early; os.replace fails
\* if another run has moved or removed the temporary file.
Publish(p) ==
  /\ At(p, "receive") /\ (calm => run[p].offset = Blocks)
  /\ IF part[File(p)] # None
     THEN /\ Goto(p, "receive", "hash")
          /\ file' = [file EXCEPT ![File(p)] = part[File(p)]]
          /\ part' = [part EXCEPT ![File(p)] = None]
          /\ run' = [Moved(File(p), Renamed) EXCEPT ![p].open = "none", ![p].offset = 0]
          /\ changed' = changed \cup Readers(p)
          /\ UNCHANGED lock
     ELSE Leave(p) /\ UNCHANGED <<file, part, changed>>
  /\ UNCHANGED <<cacheVars, calm>>

\* What was downloaded is looked at under its final name.  The stable alias, a link
\* to the OTA archive that is made anew after the last file, is left out: where it is there,
\* it is one more listed file with the archive's contents.
Hash(p) ==
  \/ /\ At(p, "hash") /\ Good(Download(File(p)))
     /\ Advance(p, "hash", "fetch", "verify", <<>>)
     /\ UNCHANGED <<file, part, cacheVars>> /\ Quiet
  \/ At(p, "hash") /\ ~Good(Download(File(p))) /\ Fail(p, "hash")

DownloadStep(p) ==
  \/ Fetch(p) \/ Connect(p) \/ Receive(p) \/ Publish(p) \/ Hash(p)

-----------------------------------------------------------------------------
(* _prepare, _copy_atomic, _verify_bundle *)

\* All files are hashed before the first is copied; a continuation from the kept copy
\* copies nothing.
Usable(p) == \A k \in Kinds : Good(Source(p, <<run[p].target, k>>))
Verify(p) ==
  \/ /\ At(p, "verify") /\ Usable(p)
     /\ Goto(p, "verify", IF run[p].source = "kept" THEN "extract" ELSE "copy")
     /\ run' = [run EXCEPT ![p].todo = IF run[p].source = "kept" THEN <<>> ELSE Listed \o <<"sums">>]
     /\ UNCHANGED <<file, part, cacheVars, lock>> /\ Quiet
  \/ At(p, "verify") /\ ~Usable(p) /\ Fail(p, "verify")

\* What is copied is not looked at again; a copy that is not finished replaces nothing.
Copy(p) ==
  /\ At(p, "copy")
  /\ kept' = [kept EXCEPT ![run[p].cache][File(p)] = Source(p, File(p))]
  /\ Advance(p, "copy", "copy", "extract", <<>>)
  /\ UNCHANGED <<file, part, bundle, recorded>> /\ Quiet

\* The members are extracted to a new directory and checked against the manifest; only
\* then does the directory of the last run, or of the last target, go.
Extract(p) ==
  LET tar == <<run[p].target, Bundle>>
  IN  \/ /\ Goto(p, "extract", "swap") /\ Good(Kept(p)[tar])
         /\ bundle' = [bundle EXCEPT ![run[p].cache] = None]
         /\ UNCHANGED <<file, part, kept, recorded, lock, run>> /\ Quiet
      \/ At(p, "extract") /\ ~Good(Kept(p)[tar]) /\ Fail(p, "extract")
Swap(p) ==
  /\ Goto(p, "swap", "use") /\ bundle' = [bundle EXCEPT ![run[p].cache] = run[p].target]
  /\ UNCHANGED <<file, part, kept, recorded, lock, run>> /\ Quiet

\* The run installs from the directory; its state file names the bundle's hash.
Install(p) ==
  /\ At(p, "use") /\ Leave(p)
  /\ recorded' = [recorded EXCEPT ![run[p].cache] = @ \cup {run[p].target}]
  /\ UNCHANGED <<file, part, kept, bundle>> /\ Quiet

PrepareStep(p) == Verify(p) \/ Copy(p) \/ Extract(p) \/ Swap(p)
RunStep(p) == DownloadStep(p) \/ PrepareStep(p) \/ Install(p)

\* A killed run leaves everything as it is.
Kill(p) == ~calm /\ ~At(p, "idle") /\ Fail(p, pc[p])
\* The operator lets one run at a time finish, over a network that works.
BecomeCalm ==
  /\ ~calm /\ Alone /\ calm' = TRUE
  /\ UNCHANGED <<file, part, cacheVars, lock, pc, run, changed>>

ProcNext(p) ==
  \/ \E c \in Caches, t \in Targets : OneShot(p, c, t) \/ Continue(p, c, t)
  \/ RunStep(p) \/ Broken(p, "connect") \/ Broken(p, "receive") \/ Kill(p)
Next == (\E p \in Procs : ProcNext(p)) \/ BecomeCalm
Spec == Init /\ [][Next]_vars
LiveSpec == Spec /\ \A p \in Procs : WF_vars(RunStep(p))

-----------------------------------------------------------------------------
(* Properties *)

TypeOK ==
  /\ file \in [Files -> Content \cup {None}] /\ part \in [Files -> Content \cup {None}]
  /\ kept \in [Caches -> [Files -> Content]]
  /\ bundle \in [Caches -> Targets \cup {None}] /\ recorded \in [Caches -> SUBSET Targets]
  /\ lock \in [Caches -> Procs \cup {None}]
  /\ pc \in [Procs -> {"idle", "use"} \cup Downloading \cup Preparing]
  /\ run \in [Procs -> Run \cup {None}]
  /\ \A p \in Procs : IF At(p, "idle") THEN run[p] = None ELSE run[p] \in Run
  /\ changed \subseteq Caches /\ calm \in BOOLEAN

\* A run that installs finds its own target's whole bundle in the bundle directory for
\* as long as it runs, whatever was downloaded beside it, killed before it, or
\* prepared for the tag's other target.
InstallsOwnBundle ==
  \A p \in Procs : At(p, "use") => bundle[run[p].cache] = run[p].target

\* Once a state file names a bundle, the cache keeps every file a continuation needs, also
\* while later runs prepare the tag again: unless another run replaced a file of the
\* download directory between its check and its copy.
KeptForContinuation ==
  \A c \in Caches \ changed : \A t \in recorded[c] :
    \A k \in Kinds : kept[c][<<t, k>>] = Whole

\* No file in the download directory that is whole is ever damaged by a run that still
\* writes to it, or by a download that is given up.
AcceptedStays ==
  [][\A f \in Files :
       file[f] = Whole /\ file'[f] # Whole => \E p \in Procs : Publish(p)]_vars

\* What earlier runs left, temporary files, cut downloads, half a cache or no bundle
\* directory, never stops a run alone: a download gets through, and so does a
\* continuation unless an incomplete download directory hides the cache.
GetsThrough ==
  \A p \in Procs :
    calm /\ (At(p, "fetch") \/ (At(p, "verify") /\ Usable(p))) ~> At(p, "use")
=============================================================================
