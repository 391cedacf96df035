--------------------------------- MODULE Fim ---------------------------------
(***************************************************************************)
(* File integrity monitoring, internal/collectors/fim/fim.go.              *)
(*                                                                         *)
(* A capture walks the watched paths one after the other, takes each       *)
(* file's metadata and then reads its content or takes the digest of an    *)
(* earlier read from a cache, and reports the differences from the last    *)
(* capture.  Files change meanwhile, between the look at the metadata and  *)
(* the read too.                                                           *)
(*                                                                         *)
(* Time is counted in ticks; the file system keeps modification times in   *)
(* units of Grain ticks.  Contents have one size and stand for their       *)
(* digests; mode, owner and group are one attribute.  A file is {} or {f}, *)
(* f = [inode, content, mtime, attr]: the metadata are those that Lstat    *)
(* gives, the content is what Open leads to, so that a symbolic link is a  *)
(* file whose content may change with none of its metadata.                *)
(***************************************************************************)
EXTENDS Naturals, FiniteSets, Sequences, Functions

CONSTANTS
  WatchPaths,     \* the paths in the order of the walk; watched directories may
                  \* overlap, so that a path comes twice
  Contents, Attrs,
  MinInterval,    \* ticks between captures
  SettleWindow,   \* hashCacheSettleWindow
  Grain,          \* granularity of modification times
  HashCacheTTL, HashCacheMaxItems,
  MaxBatchSize,
  MaxTime,        \* bound: ticks
  MaxInode,       \* bound: inode numbers
  MaxOps          \* bound: changes of the files and reads that fail

VARIABLES
  fsFiles,             \* path -> {} or {f}
  clock, inodes, ops,
  fimPc,               \* "idle", "stat" or "hash"
  fimNow,              \* now of the capture in progress or, idle, lastRun
  todoPaths,           \* paths still to walk
  looked,              \* metadata of the path being hashed
  curr,                \* the scan so far: path -> {} or {state}
  snapshot,            \* the last one
  initialized,
  hashCache,           \* path -> {} or {entry}
  known,               \* what the events and the first scan say of each path's content
  dirty,               \* history: paths changed since this capture looked at them
  masked,              \* history: paths with another content than one that was read
                       \* there under the same time, since their last read
  gaps                 \* history: paths with an event that was cut off or a content that
                       \* could not be read, and no event since

fimVars == <<fsFiles, clock, inodes, ops, fimPc, fimNow, todoPaths, looked, curr,
             snapshot, initialized, hashCache, known, dirty, masked, gaps>>
fsVars  == <<fsFiles, clock, inodes, ops>>

Paths == Range(WatchPaths)

ASSUME FimAssumption ==
  /\ Grain \in Nat \ {0} /\ SettleWindow \in Nat /\ MinInterval \in Nat
  /\ Grain <= SettleWindow /\ Grain <= MinInterval
  /\ HashCacheTTL \in Nat \ {0} /\ HashCacheMaxItems \in Nat \ {0}
  /\ MaxBatchSize \in Nat \ {0}
ASSUME WalkAssumption == WatchPaths \in Seq(Paths)
ASSUME FimBounds == MaxTime \in Nat /\ MaxInode \in Nat /\ MaxOps \in Nat

Gone == "gone"
ContentOf(f) == IF f = {} THEN Gone ELSE (CHOOSE x \in f : TRUE).content
Nothing == [p \in Paths |-> {}]

FimInit ==
  /\ \E c \in Contents, a \in Attrs :
       fsFiles = [p \in Paths |-> IF p = WatchPaths[1]
                                THEN {[inode |-> 1, content |-> c, mtime |-> 0, attr |-> a]}
                                ELSE {}]
  /\ clock = 0 /\ inodes = 1 /\ ops = 0
  /\ fimPc = "idle" /\ fimNow = 0 /\ todoPaths = <<>> /\ looked = {}
  /\ curr = Nothing /\ snapshot = Nothing /\ initialized = FALSE
  /\ hashCache = Nothing /\ known = [p \in Paths |-> Gone]
  /\ dirty = {} /\ masked = {} /\ gaps = {}

-----------------------------------------------------------------------------
(* External: time and the files *)

capture == <<fimPc, fimNow, todoPaths, looked, curr, snapshot, initialized,
             hashCache, known, gaps>>

Tick == clock < MaxTime /\ clock' = clock + 1
        /\ UNCHANGED <<fsFiles, inodes, ops, dirty, masked, capture>>

Stamp == (clock \div Grain) * Grain

Touch(ps, fs) ==
  /\ ops < MaxOps /\ ops' = ops + 1 /\ fsFiles' = fs /\ dirty' = dirty \cup ps
  /\ UNCHANGED <<clock, capture>>

WriteContent(p) ==
  \E f \in fsFiles[p], c \in Contents :
    /\ c # f.content
    /\ Touch({p}, [fsFiles EXCEPT ![p] = {[f EXCEPT !.content = c, !.mtime = Stamp]}])
    /\ UNCHANGED <<inodes, masked>>

ChangeAttr(p) ==
  \E f \in fsFiles[p], a \in Attrs :
    /\ a # f.attr
    /\ Touch({p}, [fsFiles EXCEPT ![p] = {[f EXCEPT !.attr = a]}])
    /\ UNCHANGED <<inodes, masked>>

CreateFile(p) ==
  /\ fsFiles[p] = {} /\ inodes < MaxInode /\ inodes' = inodes + 1
  /\ \E c \in Contents, a \in Attrs :
       Touch({p}, [fsFiles EXCEPT ![p] = {[inode |-> inodes', content |-> c,
                                         mtime |-> Stamp, attr |-> a]}])
  /\ UNCHANGED masked

DeleteFile(p) ==
  fsFiles[p] # {} /\ Touch({p}, [fsFiles EXCEPT ![p] = {}]) /\ UNCHANGED <<inodes, masked>>

\* A settled digest of another content has the time that file f has at path p.
Masks(p, f) ==
  \E e \in hashCache[p] :
    e.mtime = f.mtime /\ e.at >= e.mtime + SettleWindow /\ e.digest # f.content

Mask(p, fs) == masked' = masked \cup {q \in {p} : \E f \in fs : Masks(q, f)}

Times == {t \in 0 .. MaxTime : t % Grain = 0}

\* A time is set by hand, back to an earlier one too.
SetTime(p) ==
  \E f \in fsFiles[p], t \in Times :
    LET g == [f EXCEPT !.mtime = t] IN
      /\ t # f.mtime /\ Touch({p}, [fsFiles EXCEPT ![p] = {g}]) /\ Mask(p, {g})
      /\ UNCHANGED inodes

\* The content changes and the metadata do not: the file behind a symbolic link.
WriteBehind(p) ==
  \E f \in fsFiles[p], c \in Contents :
    LET g == [f EXCEPT !.content = c] IN
      /\ c # f.content /\ Touch({p}, [fsFiles EXCEPT ![p] = {g}]) /\ Mask(p, {g})
      /\ UNCHANGED inodes

\* The file keeps its time.
RenameFile(p, q) ==
  /\ p # q /\ fsFiles[p] # {}
  /\ Touch({p, q}, [fsFiles EXCEPT ![q] = fsFiles[p], ![p] = {}]) /\ Mask(q, fsFiles[p])
  /\ UNCHANGED inodes

-----------------------------------------------------------------------------
(* scan *)

\* Capture, no sooner than MinInterval after the last one: the walk begins.
BeginCapture ==
  /\ fimPc = "idle" /\ (initialized => clock - fimNow >= MinInterval)
  /\ fimPc' = "stat" /\ fimNow' = clock
  /\ todoPaths' = WatchPaths /\ curr' = Nothing /\ dirty' = {}
  /\ UNCHANGED <<fsVars, looked, snapshot, initialized, hashCache, known, masked, gaps>>

\* Lstat; a path that is not there is left out.  One that an earlier look found and
\* this one does not keeps its state and counts as changed.
LookAt ==
  /\ fimPc = "stat" /\ todoPaths # <<>>
  /\ LET p == Head(todoPaths) IN
       /\ dirty' = IF fsFiles[p] = {} /\ curr[p] # {} THEN dirty ELSE dirty \ {p}
       /\ IF fsFiles[p] = {} THEN todoPaths' = Tail(todoPaths) /\ UNCHANGED <<fimPc, looked>>
          ELSE looked' = fsFiles[p] /\ fimPc' = "hash" /\ UNCHANGED todoPaths
  /\ UNCHANGED <<fsVars, fimNow, curr, snapshot, initialized, hashCache, known, masked, gaps>>

\* Mutant: an entry counts although the file may change again within its time.
Unsettled(e, f) == e.mtime = f.mtime /\ fimNow - e.at <= HashCacheTTL

\* hashFile: the cached digest is taken for the content.
CacheHit(e, f) ==
  /\ e.at >= f.mtime + SettleWindow
  /\ e.mtime = f.mtime /\ fimNow - e.at <= HashCacheTTL

\* at, for the properties: when the digest was read.
StateOf(f, digest, at) ==
  [inode |-> f.inode, mtime |-> f.mtime, attr |-> f.attr, digest |-> digest, at |-> at]

\* buildState: the cached digest or a read of what is there now.  A file that has
\* vanished, or that cannot be opened or read, has no digest.
HashIt ==
  /\ fimPc = "hash" /\ fimPc' = "stat" /\ looked' = {} /\ todoPaths' = Tail(todoPaths)
  /\ LET p == Head(todoPaths) IN
     \E f \in looked :
       \/ \E e \in hashCache[p] :
            /\ CacheHit(e, f)
            /\ curr' = [curr EXCEPT ![p] = {StateOf(f, e.digest, e.at)}]
            /\ UNCHANGED <<hashCache, masked, ops>>
       \/ /\ ~\E e \in hashCache[p] : CacheHit(e, f)
          /\ \E g \in fsFiles[p] :
               /\ curr' = [curr EXCEPT ![p] = {StateOf(f, g.content, fimNow)}]
               /\ hashCache' = [hashCache EXCEPT ![p] =
                    {[digest |-> g.content, mtime |-> f.mtime, at |-> fimNow]}]
               /\ masked' = masked \ {p} /\ UNCHANGED ops
       \/ /\ ~\E e \in hashCache[p] : CacheHit(e, f)
          /\ curr' = [curr EXCEPT ![p] = {StateOf(f, "", fimNow)}]
          /\ \/ fsFiles[p] = {} /\ UNCHANGED ops
             \/ ops < MaxOps /\ ops' = ops + 1
          /\ UNCHANGED <<hashCache, masked>>
  /\ UNCHANGED <<fsFiles, clock, inodes, fimNow, snapshot, initialized, known, dirty, gaps>>

-----------------------------------------------------------------------------
(* diff *)

classifyChangeAction(old, cur) ==
  CASE old.digest # "" /\ cur.digest # "" /\ old.digest # cur.digest -> "modify"
    [] old.mtime # cur.mtime -> "modify"
    [] old.attr # cur.attr   -> "attribute"
    [] OTHER                 -> ""

\* The path that inodeIndex gives for a file that has appeared: the last one of the
\* walk.  No two paths are links to one file here.
CameFrom(p, cur) == {q \in Paths \ {p} : \E o \in snapshot[q] : o.inode = cur.inode}

Appeared == {p \in Paths : snapshot[p] = {} /\ curr[p] # {}}
RenamedFrom == UNION {UNION {CameFrom(p, c) : c \in curr[p]} : p \in Appeared}

\* Paths with an event of their own, and those whose going is told by a rename.
Changes ==
  Appeared
  \cup {p \in Paths : \E o \in snapshot[p], c \in curr[p] : classifyChangeAction(o, c) # ""}
  \cup {p \in Paths \ RenamedFrom : snapshot[p] # {} /\ curr[p] = {}}

\* The events in es say something of path p: its own, or that of a rename from it.
Speak(es, p) ==
  \/ p \in es
  \/ curr[p] = {} /\ \E q \in es \cap Appeared : \E c \in curr[q] : p \in CameFrom(q, c)

DigestOf(s) == IF s = {} THEN Gone ELSE (CHOOSE c \in s : TRUE).digest

\* What their reader knows of a path's content afterwards.
Told(es, p) == IF Speak(es, p) THEN DigestOf(curr[p]) ELSE known[p]

CacheAged(e) == e.at + HashCacheTTL < fimNow

\* cleanupHashCache: the old entries, then the oldest until there are few enough.
Trimmed(kept) ==
  LET fresh == [p \in Paths |-> {e \in hashCache[p] : ~CacheAged(e)}]
      keys  == {p \in Paths : fresh[p] # {}}
  IN /\ kept \subseteq keys
     /\ IF Cardinality(keys) <= HashCacheMaxItems THEN kept = keys
        ELSE /\ Cardinality(kept) = HashCacheMaxItems
             /\ \A p \in kept, q \in keys \ kept :
                  \A e \in fresh[p], g \in fresh[q] : g.at <= e.at

\* The end of Capture.  The first scan is the baseline and reports nothing: with
\* EmitInitialState it is compared with itself, without it the cache is not cleaned
\* up.  The events come in any order.
EndCapture ==
  /\ fimPc = "stat" /\ todoPaths = <<>> /\ fimPc' = "idle"
  /\ \E es \in SUBSET Changes :
       /\ IF Cardinality(Changes) <= MaxBatchSize THEN es = Changes
          ELSE Cardinality(es) = MaxBatchSize
       /\ known' = [p \in Paths |-> IF initialized THEN Told(es, p) ELSE DigestOf(curr[p])]
       /\ gaps' = {p \in Paths :
                     \/ \E c \in curr[p] : c.digest = ""
                     \/ initialized /\ ~Speak(es, p) /\ (p \in gaps \/ Speak(Changes, p))}
  /\ snapshot' = curr /\ initialized' = TRUE
  /\ \E kept \in SUBSET Paths :
       /\ Trimmed(kept) \/ (~initialized /\ kept = Paths)
       /\ hashCache' = [p \in Paths |-> IF p \in kept THEN hashCache[p] ELSE {}]
  /\ UNCHANGED <<fsVars, fimNow, todoPaths, looked, curr, dirty, masked>>

FimNext ==
  \/ Tick \/ BeginCapture \/ LookAt \/ HashIt \/ EndCapture
  \/ \E p \in Paths :
       \/ WriteContent(p) \/ ChangeAttr(p) \/ CreateFile(p) \/ DeleteFile(p)
       \/ SetTime(p) \/ WriteBehind(p)
       \/ \E q \in Paths : RenameFile(p, q)

\* A specification of its own, for what is proved.
FimSpec == FimInit /\ [][FimNext]_fimVars

-----------------------------------------------------------------------------
(* Properties. *)

\* fim "hashes contents, and reports creations, modifications, deletions, and
\* renames": after a capture the events and the baseline tell the content of every
\* file that did not change under the capture, although modification times are
\* coarse, digests are cached, files are renamed, and contents change under a time
\* that is set back or behind a link.  One exception, as long as a digest may be
\* cached: another content of the time under which the digest was read, the settle
\* window after that time.  A file without an event of its last change (a batch was
\* cut) and one that could not be read are left out until the next event tells them.
ReportsTellContents ==
  fimPc = "idle" /\ initialized =>
    \A p \in Paths \ (dirty \cup gaps) :
      \/ known[p] = ContentOf(fsFiles[p])
      \/ p \in masked /\ \E o \in snapshot[p] : fimNow - o.at <= HashCacheTTL
=============================================================================
