------------------------------ MODULE MapFiles ------------------------------
(***************************************************************************)
(* MapReduce::map() over files: the names an argument stands for are       *)
(* collected by rank 0 (or by every rank for itself), shared, and handed   *)
(* out as whole files or as pieces of files that end at a separator.       *)
(* The file system does not change during a call.  A path is a value;      *)
(* Disk[p] has the fields kind, size as stat() gives it and seps, the      *)
(* offsets at which a separator starts; of a file, the names in its lines; *)
(* of a directory, its entries in the order readdir() gives them.          *)
(***************************************************************************)
EXTENDS Integers, FiniteSets, SequencesExt, FiniteSetsExt

CONSTANTS
    Procs,       \* the number of ranks
    Disk,        \* path -> what it names
    Blank,       \* a line of a file of names with nothing on it
    Bad,         \* where findfiles() stops the job with error->one()
    SepLength    \* the length of sepstr

ASSUME DiskAssumption ==
    /\ Procs \in Nat \ {0}
    /\ SepLength \in Nat
    /\ \A p \in DOMAIN Disk :
           /\ Disk[p].kind # "missing"
           /\ Disk[p].size \in Nat
           /\ Disk[p].seps \subseteq Nat
           /\ Disk[p].kind = "file" => Disk[p].lines \in Seq(Range(Disk[p].lines))

VARIABLES
    mstage,        \* where the call is; "idle" between calls
    margs,         \* its arguments; known: the function to call is not NULL
    files,         \* rank -> the names it has
    nmap,          \* the number of map tasks
    tasksperfile,  \* filemap.tasksperfile
    which,         \* filemap.whichfile and filemap.whichtask
    todo,          \* the tasks nobody has taken
    given          \* the pieces the user's function was called with

mapVars == <<mstage, margs, files, nmap, tasksperfile, which, todo, given>>

Rank == 0 .. Procs - 1

Kind(p) == IF p \in DOMAIN Disk THEN Disk[p].kind ELSE "missing"

Added(p, readfile) ==
    IF ~readfile THEN <<p>>
    ELSE IF Blank \in Range(Disk[p].lines) THEN <<Bad>> ELSE Disk[p].lines

Dirs == {p \in DOMAIN Disk : Kind(p) = "dir"}

\* The names found in a directory, under recurse and readfile.  An entry stat()
\* fails for is taken for what the previous stat() found.
Inside[x \in Dirs \X BOOLEAN \X BOOLEAN] ==
    LET recurse == x[2]
        readfile == x[3]
    IN  FoldLeft(LAMBDA found, e :
                 LET kind == IF Kind(e.path) = "missing"
                               THEN found.kind ELSE Kind(e.path)
                 IN  CASE e.hidden -> found
                       [] ~e.hidden /\ kind = "file" ->
                              [kind |-> kind, names |-> found.names \o
                                 (IF readfile /\ Kind(e.path) = "missing"
                                    THEN <<Bad>> ELSE Added(e.path, readfile))]
                       [] ~e.hidden /\ kind = "dir" /\ recurse ->
                              [kind |-> kind, names |-> found.names \o
                                 (IF Kind(e.path) = "missing"
                                    THEN <<Bad>>
                                    ELSE Inside[<<e.path, recurse, readfile>>])]
                       [] OTHER -> [found EXCEPT !.kind = kind],
             [kind |-> "dir", names |-> <<>>], Disk[x[1]].entries).names

FindFiles(p, recurse, readfile) ==
    CASE Kind(p) = "file" -> Added(p, readfile)
      [] Kind(p) = "dir" -> Inside[<<p, recurse, readfile>>]
      [] OTHER -> <<Bad>>

\* findfiles() comes to an end: by no link is a directory inside itself.
ASSUME ListingAssumption ==
    \A x \in Dirs \X BOOLEAN \X BOOLEAN : Inside[x] \in Seq(Range(Inside[x]))

FilesOf(r) ==
    FlattenSeq([i \in DOMAIN margs.paths[r] |->
                   FindFiles(margs.paths[r][i], margs.recurse, margs.readfile)])

-----------------------------------------------------------------------------
Splits == margs.split # "no"
Sep == IF margs.split = "char" THEN 1 ELSE SepLength
Shift == IF margs.split = "char" THEN 1 ELSE 0

nfile == Len(files[0])
Size(i) == Disk[files[0][i]].size
SumOf(list) == FoldLeft(LAMBDA sum, n : sum + n, 0, list)
Total == SumOf([i \in 1 .. nfile |-> Size(i)])
nideal == Max({1, Total \div nmap})
ntasks == SumOf(tasksperfile)

\* The first n indices of S.
FirstOf(n, S) == {i \in S : Cardinality({h \in S : h < i}) < n}

\* The most tasks, t at most, that leave each more than delta characters.
WithinDelta(size, t) ==
    Max({1} \cup {n \in 1 .. t : size \div n > margs.delta})

-----------------------------------------------------------------------------
MapInit ==
    /\ mstage = "idle"
    /\ margs = [split |-> "no", self |-> FALSE]
    /\ files = [r \in Rank |-> <<>>]
    /\ nmap = 0
    /\ tasksperfile = <<>>
    /\ which = <<>>
    /\ todo = {}
    /\ given = {}

MapCall(args) ==
    /\ mstage = "idle"
    /\ mstage' = "find"
    /\ margs' = args
    /\ files' = [r \in Rank |-> <<>>]
    /\ nmap' = args.nmap
    /\ tasksperfile' = <<>>
    /\ which' = <<>>
    /\ todo' = {}
    /\ given' = {}

\* Rank 0 lists the files and broadcasts the list, or every rank lists its own.
Find ==
    /\ mstage = "find"
    /\ LET list == [r \in Rank |-> FilesOf(IF margs.self THEN r ELSE 0)]
           bad == \E r \in Rank : Bad \in Range(list[r])
       IN  /\ files' = IF bad THEN files ELSE list
           /\ mstage' = IF bad THEN "failed"
                        ELSE IF Splits THEN "size" ELSE "hand"
    /\ UNCHANGED <<margs, nmap, tasksperfile, which, todo, given>>

\* One task for each file of the list: with self, each rank does all of its own.
HandOutFiles ==
    /\ mstage = "hand"
    /\ todo' = IF margs.self
                 THEN UNION {{r} \X DOMAIN files[r] : r \in Rank}
                 ELSE {0} \X (1 .. nfile)
    /\ nmap' = Cardinality(todo')
    /\ mstage' = "files"
    /\ UNCHANGED <<margs, files, tasksperfile, which, given>>

\* The user's function is called, which crashes when the caller gave NULL.
MapWhole(task) ==
    /\ mstage = "files"
    /\ task \in todo
    /\ todo' = todo \ {task}
    /\ IF margs.known
         THEN given' = given \cup {[list |-> task[1], file |-> task[2], task |-> 0,
                                   from |-> 0, to |-> 0]}
              /\ UNCHANGED mstage
         ELSE mstage' = "crashed" /\ UNCHANGED given
    /\ UNCHANGED <<margs, files, nmap, tasksperfile, which>>

\* At least a task for each file; rank 0 asks for the sizes.  Without a task the
\* average size of a piece is a division by zero.
SizeFiles ==
    /\ mstage = "size"
    /\ nmap' = Max({nmap, nfile})
    /\ mstage' = CASE \E p \in Range(files[0]) : Kind(p) = "missing" -> "failed"
                   [] nmap' = 0 -> "crashed"
                   [] OTHER -> "plan"
    /\ UNCHANGED <<margs, files, tasksperfile, which, todo, given>>

\* The first assignment, by the ideal size of a piece.
PlanTasks ==
    /\ mstage = "plan"
    /\ tasksperfile' = [i \in 1 .. nfile |-> Max({1, Size(i) \div nideal})]
    /\ mstage' = "grow"
    /\ UNCHANGED <<margs, files, nmap, which, todo, given>>

GrowPassTwice ==
    /\ mstage = "grow"
    /\ ntasks < nmap
    /\ LET more == FirstOf(nmap - ntasks,
                           {i \in 1 .. nfile : Size(i) > 2 * nideal})
       IN  tasksperfile' = [i \in 1 .. nfile |->
               IF i \in more THEN tasksperfile[i] + 1 ELSE tasksperfile[i]]
    /\ UNCHANGED <<mstage, margs, files, nmap, which, todo, given>>

\* One pass over the files: too few tasks and some file is larger than ideal.
GrowPass ==
    /\ mstage = "grow"
    /\ ntasks < nmap
    /\ LET more == FirstOf(nmap - ntasks, {i \in 1 .. nfile : Size(i) > nideal})
       IN  tasksperfile' = [i \in 1 .. nfile |->
               IF i \in more THEN tasksperfile[i] + 1 ELSE tasksperfile[i]]
    /\ UNCHANGED <<mstage, margs, files, nmap, which, todo, given>>

ShrinkPass ==
    /\ mstage = "grow"
    /\ ntasks > nmap
    /\ LET less == FirstOf(ntasks - nmap, {i \in 1 .. nfile : tasksperfile[i] > 1})
       IN  tasksperfile' = [i \in 1 .. nfile |->
               IF i \in less THEN tasksperfile[i] - 1 ELSE tasksperfile[i]]
    /\ UNCHANGED <<mstage, margs, files, nmap, which, todo, given>>

\* Fewer tasks for a file whose pieces would not be longer than delta.
FitDelta ==
    /\ mstage = "grow"
    /\ ntasks = nmap
    /\ tasksperfile' =
           [i \in 1 .. nfile |-> WithinDelta(Size(i), tasksperfile[i])]
    /\ nmap' = nmap - SumOf([i \in 1 .. nfile |-> tasksperfile[i] - tasksperfile'[i]])
    /\ which' = FlattenSeq([i \in 1 .. nfile |->
                               [j \in 1 .. tasksperfile'[i] |-> <<i, j - 1>>]])
    /\ todo' = 1 .. nmap'
    /\ mstage' = "chunks"
    /\ UNCHANGED <<margs, files, given>>

\* strchr() or strstr() from offset a of a text that ends at offset b.
Found(i, a, b) ==
    LET at == {p \in Disk[files[0][i]].seps : a <= p /\ p + Sep <= b}
    IN  IF at = {} THEN -1 ELSE Min(at)

\* map_file_wrapper(): read a piece and delta characters more, then trim it.
ReadStart(t) == (which[t][2] * Size(which[t][1])) \div tasksperfile[which[t][1]]
ReadNext(t) ==
    ((which[t][2] + 1) * Size(which[t][1])) \div tasksperfile[which[t][1]]

ReadEnd(t) == Min({ReadNext(t) + margs.delta, Size(which[t][1])})

StartOf(t) ==
    IF which[t][2] = 0 THEN 0
    ELSE LET p == Found(which[t][1], ReadStart(t), ReadEnd(t))
         IN  IF p = -1 \/ p - ReadStart(t) > margs.delta THEN -1 ELSE p + Shift

StopOfUnshifted(t) ==
    IF which[t][2] = tasksperfile[which[t][1]] - 1 THEN ReadEnd(t)
    ELSE Found(which[t][1], ReadNext(t), ReadEnd(t))

StopOf(t) ==
    IF which[t][2] = tasksperfile[which[t][1]] - 1 THEN ReadEnd(t)
    ELSE LET p == Found(which[t][1], ReadNext(t), ReadEnd(t))
         IN  IF p = -1 THEN -1 ELSE p + Shift

MapChunk(t) ==
    /\ mstage = "chunks"
    /\ t \in todo
    /\ todo' = todo \ {t}
    /\ IF StartOf(t) = -1 \/ StopOf(t) = -1 \/ ~margs.known
         THEN /\ mstage' = IF StartOf(t) = -1 \/ StopOf(t) = -1 THEN "failed" ELSE "crashed"
              /\ UNCHANGED given
         ELSE /\ given' = given \cup
                    {[list |-> 0, file |-> which[t][1], task |-> which[t][2],
                      from |-> StartOf(t), to |-> StopOf(t)]}
              /\ UNCHANGED mstage
    /\ UNCHANGED <<margs, files, nmap, tasksperfile, which>>

MapReturn ==
    /\ mstage \in {"files", "chunks"}
    /\ todo = {}
    /\ mstage' = "idle"
    /\ UNCHANGED <<margs, files, nmap, tasksperfile, which, todo, given>>

MapStep ==
    \/ Find \/ HandOutFiles \/ SizeFiles \/ PlanTasks
    \/ GrowPass \/ ShrinkPass \/ FitDelta \/ MapReturn
    \/ \E t \in todo : MapWhole(t) \/ MapChunk(t)
=============================================================================
