------------------------------ MODULE Workflow ------------------------------
(***************************************************************************)
(* Breadlog as a team uses it: several processes (editors with a save      *)
(* hook, a terminal), a checkout with a branch beside it, and              *)
(* configurations that differ in source_dir, extensions and use_cache, or  *)
(* change from run to run.  What they share is the code and the lock file  *)
(* next to each configuration.                                             *)
(*                                                                         *)
(* A run is taken apart no further than two processes can tell: the start  *)
(* (Context::new and CodeFinder::find), each file scanned, each file read  *)
(* and mapped, its rename, and the lock file written.  Failures are module *)
(* Breadlog's.  A file holds one statement.  Check mode writes nothing and *)
(* is left out.                                                            *)
(***************************************************************************)
EXTENDS LogRefs

CONSTANTS
    Files,          \* records: the directories they are below, the extension
    ConfigDirs,     \* directories with a configuration
    Yamls,          \* what a configuration file says, see Loaded
    Processes,
    MaxRuns,        \* bound on the runs of Breadlog
    MaxEdits        \* bound on the developers' edits

(* The checkout, and a branch with a working tree of its own.              *)
Trees == {"main", "branch"}

ASSUME FilesAssumption ==
    \A f \in Files : DOMAIN f = {"below", "extension"}
ASSUME YamlsAssumption ==
    \A y \in Yamls :
        /\ DOMAIN y = {"source_dir", "absolute", "extensions", "use_cache"}
        /\ y.absolute \in BOOLEAN
        /\ y.use_cache \in BOOLEAN \cup {None}
ASSUME BoundAssumption == MaxRuns \in Nat /\ MaxEdits \in Nat

VARIABLES
    code,           \* per tree and file its statement
    locks,          \* per tree and configuration directory the number, or None
    base,           \* where the branch began: its code and locks, or None
    process,        \* the running Breadlogs
    runs, edits,    \* counted against MaxRuns and MaxEdits
    drew,           \* history: trees given references since the branch began
    lapses          \* history: see LapseKinds

vars == <<code, locks, base, process, runs, edits, drew, lapses>>

New == [kind |-> "String", reference |-> None]

(***************************************************************************)
(* What a team can do that puts two statements under one reference:        *)
(*   "overlapped"  a run was started while another was using the same code *)
(*                 or the same lock file;                                  *)
(*   "merged"      references were handed out on both sides of a merge;    *)
(*   "unseen"      the next free reference was looked for without a file   *)
(*                 that has one and depends on the outcome;                *)
(*   "bypassed"    references were handed out that another lock file for   *)
(*                 the same code does not know of.                         *)
(* A first pass over all the code, with nobody else at work and no lock    *)
(* file left, settles what happened before: see StartsOver.  The program   *)
(* never reads this variable and no guard mentions it.                     *)
(***************************************************************************)
LapseKinds == {"overlapped", "merged", "unseen", "bypassed"}

Lapse(kind, happened) == lapses' = lapses \cup (IF happened THEN {kind} ELSE {})

-----------------------------------------------------------------------------
(***************************************************************************)
(* Config with its serde defaults, and Context::new: an absolute           *)
(* source_dir is taken as it is, which is in the checkout wherever the     *)
(* configuration is read, and a relative one is below the directory of the *)
(* configuration.                                                          *)
(***************************************************************************)
Extensions(yaml) == IF yaml.extensions = None THEN {"rs"} ELSE yaml.extensions

UseCache(yaml) == IF yaml.use_cache = None THEN TRUE ELSE yaml.use_cache

SourceTree(tree, yaml) == IF yaml.absolute THEN "main" ELSE tree

(* CodeFinder::find: files below source_dir with a configured extension.   *)
CodeFiles(yaml) ==
    {f \in Files : yaml.source_dir \in f.below /\ f.extension \in Extensions(yaml)}

(* read_cached_next_reference_id: the number next to the configuration.    *)
CachedNextReferenceId(tree, dir, yaml) ==
    IF UseCache(yaml) THEN locks[tree][dir] ELSE None

-----------------------------------------------------------------------------
Closed == [pc |-> "closed"]

Open(p) == process[p] # Closed

Become(p, state) == process' = [process EXCEPT ![p] = state]

(* The runs that use the code of a tree or the lock file of a directory.   *)
Using(tree, dir, source) ==
    {q \in Processes :
        /\ Open(q)
        /\ \/ process[q].source = source
           \/ <<process[q].tree, process[q].dir>> = <<tree, dir>>}

(* May a configuration in a tree trust its lock file for code of source?   *)
Trusts(tree, source) ==
    source = tree \/ \E y \in Yamls : UseCache(y) /\ SourceTree(tree, y) = source

Governs(tree, dir, source) == locks[tree][dir] # None /\ Trusts(tree, source)

References(tree) == {code[tree][f].reference : f \in Files} \ {None}

Init ==
    /\ code = [t \in Trees |-> [f \in Files |-> AbsentEntry]]
    /\ locks = [t \in Trees |-> [d \in ConfigDirs |-> None]]
    /\ base = None
    /\ process = [p \in Processes |-> Closed]
    /\ runs = 0 /\ edits = 0
    /\ drew = {}
    /\ lapses = {}

(***************************************************************************)
(* What context.rs 81 tells the reader of a lock file to do, delete it and *)
(* run Breadlog, done by the whole team: no branch, no other run, no lock  *)
(* file, no reference where the run does not look, and no two equal.       *)
(***************************************************************************)
StartsOver(yaml) ==
    /\ base = None
    /\ \A q \in Processes : ~Open(q)
    /\ \A d \in ConfigDirs : locks["main"][d] = None
    /\ \A f \in Files :
        /\ f \notin CodeFiles(yaml) => ~Exists(code["main"][f])
        /\ \A g \in Files : Exists(code["main"][f])
            /\ code["main"][f].reference = code["main"][g].reference => f = g

(***************************************************************************)
(* main up to the first pass, as module Breadlog has it: without a number  *)
(* from the lock file the next free reference is looked for first.         *)
(***************************************************************************)
Start(p, tree, dir, yaml) ==
    LET cached == CachedNextReferenceId(tree, dir, yaml)
        source == SourceTree(tree, yaml)
    IN  /\ ~Open(p)
        /\ runs < MaxRuns
        /\ tree = "main" \/ base # None
        /\ CodeFiles(yaml) # {}
        /\ Become(p, [pc |-> IF cached = None THEN "scan" ELSE "insert",
                      tree |-> tree, dir |-> dir, source |-> source,
                      use_cache |-> UseCache(yaml),
                      found |-> CodeFiles(yaml), code_files |-> CodeFiles(yaml),
                      start |-> cached, next |-> cached,
                      max_ref |-> 0, missing |-> FALSE,
                      file |-> None, scratch |-> AbsentEntry])
        /\ runs' = runs + 1
        /\ lapses' = (IF StartsOver(yaml) THEN {} ELSE lapses)
            \cup {k \in {"overlapped"} : Using(tree, dir, source) # {}}
            \cup {k \in {"unseen"} : cached = None /\
                    \E f \in Files \ CodeFiles(yaml) : Exists(code[source][f])}
        /\ UNCHANGED <<code, locks, base, edits, drew>>

(***************************************************************************)
(* NextReferenceIdProcessor: one file, and the end of the pass.            *)
(***************************************************************************)
ScanFile(p, f) ==
    /\ process[p].pc = "scan"
    /\ f \in process[p].code_files
    /\ LET e == code[process[p].source][f] IN
       Become(p, [process[p] EXCEPT
                    !.code_files = @ \ {f},
                    !.missing = @ \/ NeedsReference(e),
                    !.max_ref = IF Exists(e) /\ e.reference > @ THEN e.reference ELSE @])
    /\ UNCHANGED <<code, locks, base, runs, edits, drew, lapses>>

FinishScan(p) ==
    /\ process[p].pc = "scan"
    /\ process[p].code_files = {}
    /\ Become(p, IF ~process[p].missing THEN Closed
                 ELSE [process[p] EXCEPT !.pc = "insert",
                                         !.code_files = process[p].found,
                                         !.start = process[p].max_ref + 1,
                                         !.next = process[p].max_ref + 1])
    /\ UNCHANGED <<code, locks, base, runs, edits, drew, lapses>>

(***************************************************************************)
(* InsertReferencesProcessor::map: the file is read once, a reference is   *)
(* drawn if its statement has none, and what was read goes back with the   *)
(* reference, whatever is in the file by then.                             *)
(***************************************************************************)
SkipFile(p, f) ==
    /\ process[p].pc = "insert"
    /\ process[p].file = None
    /\ f \in process[p].code_files
    /\ ~NeedsReference(code[process[p].source][f])
    /\ Become(p, [process[p] EXCEPT !.code_files = @ \ {f}])
    /\ UNCHANGED <<code, locks, base, runs, edits, drew, lapses>>

FetchAddLocal(n) == n    \* mutation: a copy of the counter is counted up

FetchAdd(n) == n + 1

MapFile(p, f) ==
    /\ process[p].pc = "insert"
    /\ process[p].file = None
    /\ f \in process[p].code_files
    /\ NeedsReference(code[process[p].source][f])
    /\ FetchAdd(process[p].next) < RefMod
    /\ Become(p, [process[p] EXCEPT
                    !.file = f,
                    !.scratch = WithReference(code[process[p].source][f], process[p].next),
                    !.next = FetchAdd(@)])
    /\ drew' = IF base = None THEN {} ELSE drew \cup {process[p].source}
    /\ UNCHANGED <<code, locks, base, runs, edits, lapses>>

Rename(p) ==
    /\ process[p].pc = "insert"
    /\ process[p].file # None
    /\ code' = [code EXCEPT ![process[p].source][process[p].file] = process[p].scratch]
    /\ Become(p, [process[p] EXCEPT !.code_files = @ \ {process[p].file},
                                    !.file = None, !.scratch = AbsentEntry])
    /\ UNCHANGED <<locks, base, runs, edits, drew, lapses>>

(***************************************************************************)
(* cache_next_reference_id and the end of the run.                         *)
(***************************************************************************)
Bypasses(p) ==
    /\ process[p].next # process[p].start
    /\ \E t \in Trees, d \in ConfigDirs :
        /\ Governs(t, d, process[p].source)
        /\ process[p].use_cache => <<t, d>> # <<process[p].tree, process[p].dir>>

(* A new lock file that a configuration trusts for other code as well.     *)
BeginsBlindly(p) ==
    /\ process[p].use_cache
    /\ locks[process[p].tree][process[p].dir] = None
    /\ \E source \in Trees \ {process[p].source} :
        Trusts(process[p].tree, source) /\ References(source) # {}

CachableStart(p) == process[p].start    \* mutation: nothing added to it

Cachable(p) == process[p].next

Finish(p) ==
    /\ process[p].pc = "insert"
    /\ process[p].code_files = {}
    /\ locks' = IF process[p].use_cache
                THEN [locks EXCEPT ![process[p].tree][process[p].dir] = Cachable(p)]
                ELSE locks
    /\ Become(p, Closed)
    /\ lapses' = lapses \cup {k \in {"bypassed"} : Bypasses(p)}
                       \cup {k \in {"unseen"} : BeginsBlindly(p)}
    /\ UNCHANGED <<code, base, runs, edits, drew>>

-----------------------------------------------------------------------------
(***************************************************************************)
(* The developers.  They leave a tree alone while Breadlog works on it     *)
(* (module Breadlog lets them not to).                                     *)
(***************************************************************************)
AtRest(tree) ==
    \A p \in Processes : Open(p) => tree \notin {process[p].tree, process[p].source}

Edit(tree, f, e) ==
    /\ edits < MaxEdits
    /\ AtRest(tree)
    /\ tree = "main" \/ base # None
    /\ code' = [code EXCEPT ![tree][f] = e]
    /\ edits' = edits + 1
    /\ UNCHANGED <<locks, base, process, runs, drew, lapses>>

AddStatement(tree, f) == code[tree][f] = AbsentEntry /\ Edit(tree, f, New)

DeleteStatement(tree, f) == code[tree][f] # AbsentEntry /\ Edit(tree, f, AbsentEntry)

(* Not counted: a lock file comes only from a run.                         *)
DeleteLock(tree, dir) ==
    /\ AtRest(tree)
    /\ locks[tree][dir] # None
    /\ locks' = [locks EXCEPT ![tree][dir] = None]
    /\ UNCHANGED <<code, base, process, runs, edits, drew, lapses>>

(* A branch takes everything along, the lock files included.               *)
Branch ==
    /\ base = None
    /\ AtRest("main")
    /\ base' = [code |-> code["main"], locks |-> locks["main"]]
    /\ code' = [code EXCEPT !["branch"] = code["main"]]
    /\ locks' = [locks EXCEPT !["branch"] = locks["main"]]
    /\ drew' = {}
    /\ UNCHANGED <<process, runs, edits, lapses>>

(***************************************************************************)
(* A three-way merge, file by file: of two changes one is taken, of code   *)
(* and of lock files alike.                                                *)
(***************************************************************************)
Resolved(ours, theirs, common) ==
    IF ours = common THEN {theirs}
    ELSE IF theirs = common THEN {ours}
    ELSE {ours, theirs}

Merged(ours, theirs, common) ==
    {merged \in [DOMAIN ours -> {v[x] : v \in {ours, theirs}, x \in DOMAIN ours}] :
        \A x \in DOMAIN ours : merged[x] \in Resolved(ours[x], theirs[x], common[x])}

Merge ==
    /\ base # None
    /\ \A t \in Trees : AtRest(t)
    /\ \E rows \in Merged(code["main"], code["branch"], base.code) :
        code' = [code EXCEPT !["main"] = rows,
                             !["branch"] = [f \in Files |-> AbsentEntry]]
    /\ \E numbers \in Merged(locks["main"], locks["branch"], base.locks) :
        locks' = [locks EXCEPT !["main"] = numbers,
                               !["branch"] = [d \in ConfigDirs |-> None]]
    /\ base' = None
    /\ drew' = {}
    /\ Lapse("merged", drew = Trees)
    /\ UNCHANGED <<process, runs, edits>>

-----------------------------------------------------------------------------
Next ==
    \/ \E p \in Processes :
        \/ \E t \in Trees, d \in ConfigDirs, y \in Yamls : Start(p, t, d, y)
        \/ \E f \in Files : ScanFile(p, f) \/ SkipFile(p, f) \/ MapFile(p, f)
        \/ FinishScan(p)
        \/ Rename(p)
        \/ Finish(p)
    \/ \E t \in Trees, f \in Files : AddStatement(t, f) \/ DeleteStatement(t, f)
    \/ \E t \in Trees, d \in ConfigDirs : DeleteLock(t, d)
    \/ Branch
    \/ Merge

Spec == Init /\ [][Next]_vars
-----------------------------------------------------------------------------
(***************************************************************************)
(* As long as the team does none of the four, or has started over since,   *)
(* no two statements of a tree have the same reference: whatever           *)
(* configurations they use, one after the other or side by side on         *)
(* different code, however often they branch and merge, conflicts in the   *)
(* lock file resolved either way, and whichever lock files they delete.    *)
(***************************************************************************)
UniqueUnlessMisused ==
    lapses = {} =>
        \A t \in Trees : \A f, g \in Files :
            Exists(code[t][f]) /\ code[t][f].reference = code[t][g].reference => f = g

(***************************************************************************)
(* Then also every lock file that some configuration would trust is ahead  *)
(* of the code it would be trusted for, whenever nobody works on that code.*)
(***************************************************************************)
LocksAhead ==
    lapses = {} =>
        \A t, source \in Trees, d \in ConfigDirs :
            Governs(t, d, source) /\ AtRest(source) =>
                \A r \in References(source) : r < locks[t][d]

(***************************************************************************)
(* No run takes back or changes a reference that is in the code, unless    *)
(* another run is at work on it as well.                                   *)
(***************************************************************************)
ReferencesStay ==
    [][(\E p \in Processes : Rename(p)) /\ "overlapped" \notin lapses =>
        \A t \in Trees, f \in Files :
            Exists(code[t][f]) => code'[t][f] = code[t][f]]_vars

-----------------------------------------------------------------------------
(***************************************************************************)
(* Why the three hold: an invariant that every step keeps, in named parts  *)
(* (WorkflowProofs has the proof).                                         *)
(***************************************************************************)
Row == {AbsentEntry} \cup [kind : {"String"}, reference : U32 \cup {None}]

Numbers == Nat \cup {None}

Fork == [code : [Files -> Row], locks : [ConfigDirs -> Numbers]]

ASSUME ForkAssumption == None \notin Fork

Run == [pc : {"scan", "insert"}, tree : Trees, dir : ConfigDirs, source : Trees,
        use_cache : BOOLEAN, found : SUBSET Files, code_files : SUBSET Files,
        start : Numbers, next : Numbers, max_ref : Nat, missing : BOOLEAN,
        file : Files \cup {None}, scratch : Row]

TypeOK ==
    /\ code \in [Trees -> [Files -> Row]]
    /\ locks \in [Trees -> [ConfigDirs -> Numbers]]
    /\ base \in {None} \cup Fork
    /\ process \in [Processes -> {Closed} \cup Run]
    /\ runs \in Nat /\ edits \in Nat
    /\ drew \subseteq Trees
    /\ lapses \subseteq LapseKinds

(* Every reference of a tree is less than n.                               *)
Below(tree, n) ==
    \A f \in Files : Exists(code[tree][f]) => code[tree][f].reference < n

Drew(p) == process[p].next # process[p].start

(* What holds of a run whatever the team does.                             *)
RunShape(p) ==
    LET r == process[p] IN
    /\ r.code_files \subseteq r.found
    /\ r.pc = "scan" => r.start = None /\ r.next = None /\ r.file = None
    /\ r.pc = "insert" => r.start \in Nat /\ r.next \in Nat /\ r.start <= r.next
    /\ r.file # None => Drew(p) /\ r.scratch.reference \in Nat
    /\ r.tree = "main" => r.source = "main"
    /\ r.use_cache => Trusts(r.tree, r.source)
    /\ base = None => r.tree = "main" /\ r.source = "main"
    /\ base # None /\ Drew(p) => r.source \in drew

(* No two runs at work on the same code or the same lock file, and no      *)
(* file given a reference while a run is about to replace it.              *)
Separate ==
    /\ \A p, q \in Processes : p # q /\ Open(p) /\ Open(q) =>
        /\ process[p].source # process[q].source
        /\ process[p].tree = process[q].tree => process[p].dir # process[q].dir
    /\ \A p \in Processes : Open(p) /\ process[p].file # None =>
        ~Exists(code[process[p].source][process[p].file])

(* The next reference a run draws is beyond all those of its code, and the *)
(* one that waits in its temporary file is beyond those in the files.      *)
RunFresh(p) ==
    LET r == process[p] IN
    /\ r.pc = "insert" => Below(r.source, r.next)
    /\ r.file # None =>
        r.scratch.reference < r.next /\ Below(r.source, r.scratch.reference)
    /\ r.pc = "scan" => \A f \in Files \ r.code_files :
        Exists(code[r.source][f]) => code[r.source][f].reference <= r.max_ref

(* The lock file still holds what the run has read from it.  A run that    *)
(* has read no number is not going to end without a reference drawn.       *)
LockKnown(p) ==
    LET r == process[p]
        lock == locks[r.tree][r.dir]
        HasWork(files) == \E f \in files : NeedsReference(code[r.source][f])
    IN  /\ r.use_cache => lock \in {r.start, None}
        /\ r.pc = "scan" /\ r.missing => HasWork(r.found)
        /\ r.pc = "insert" /\ r.use_cache /\ lock = None /\ ~Drew(p) => HasWork(r.code_files)

(* Lock files are ahead of the code they may be trusted for, unless a run  *)
(* on that code has drawn references and has not recorded them yet.        *)
LocksCover ==
    \A t, source \in Trees, d \in ConfigDirs :
        /\ Governs(t, d, source)
        /\ \A p \in Processes : Open(p) /\ process[p].source = source => ~Drew(p)
        => Below(source, locks[t][d])

(* In a tree that was given no reference since the branch began there is   *)
(* none that was not there then, and its lock files are those of then or   *)
(* gone, but for configurations of the branch about the code of main.      *)
BranchKept ==
    base # None => \A t \in Trees \ drew :
        /\ \A f \in Files : code[t][f].reference \in {None, base.code[f].reference}
        /\ \A d \in ConfigDirs : locks[t][d] \notin {base.locks[d], None} =>
            t = "branch" /\ Trusts("branch", "main")

(* Without a branch there is no code of one.                               *)
NoBranch ==
    base = None =>
        /\ \A f \in Files : code["branch"][f] = AbsentEntry
        /\ \A d \in ConfigDirs : locks["branch"][d] = None

DistinctReferences ==
    \A t \in Trees : \A f, g \in Files :
        Exists(code[t][f]) /\ code[t][f].reference = code[t][g].reference => f = g

(***************************************************************************)
(* The inductive invariant: the code, the runs and the lock files of all   *)
(* trees agree on which references are taken, until the team does one of   *)
(* the four, and again from where it starts over.                          *)
(***************************************************************************)
IInv ==
    /\ TypeOK
    /\ \A p \in Processes : Open(p) => RunShape(p)
    /\ NoBranch
    /\ "overlapped" \notin lapses => Separate
    /\ lapses = {} =>
        /\ DistinctReferences
        /\ \A p \in Processes : Open(p) => RunFresh(p) /\ LockKnown(p)
        /\ LocksCover
        /\ BranchKept
=============================================================================
