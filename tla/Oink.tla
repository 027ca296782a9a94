-------------------------------- MODULE Oink --------------------------------
(***************************************************************************)
(* OINK runs a script of commands on named MapReduce objects.  Object      *)
(* keeps the objects in mrwrap, with a name (PERMANENT) or without         *)
(* (TEMPORARY), the descriptors of the running command's inputs and        *)
(* outputs, and the settings the script made for those of the next one.    *)
(* Every rank runs the same script between barriers, so one copy of this   *)
(* state stands for all; only the paths depend on the rank.  What the      *)
(* objects hold is left out; an object is a number, the lowest free one as *)
(* an allocator would give it.  File names are read through MapFiles.      *)
(***************************************************************************)
EXTENDS MapFiles

CONSTANTS
    Names,       \* the names of objects a script uses
    Strings,     \* an input's text -> the names of files it stands for
    Variables,   \* the texts that name a variable (v_...)
    Settings,    \* what an input command may set
    Prepends, Substitutes,  \* what a set command may set
    MapLines,    \* the map commands on objects: [text, self, recurse, ...]; known: the
                 \* function named is in style_map.h
    None,
    Texts,       \* the texts a script gives as inputs
    MaxLines     \* bound: the lines of a script

ASSUME ScriptAssumption ==
    /\ MaxLines \in Nat
    /\ None \notin Names
    /\ Texts \subseteq DOMAIN Strings
    /\ \A text \in DOMAIN Strings : Strings[text] \in Seq(Range(Strings[text]))
    /\ \A settings \in Settings : \A x \in DOMAIN settings :
           /\ x = "multi" => settings[x] \in Nat
           /\ x \in {"recurse", "self", "readfile"} => settings[x] \in BOOLEAN
    /\ \A m \in MapLines :
           /\ m.text \in DOMAIN Strings
           /\ m.split \in {"no", "char", "string"}
           /\ m.self \in BOOLEAN /\ m.recurse \in BOOLEAN /\ m.readfile \in BOOLEAN
           /\ m.known \in BOOLEAN
           /\ m.nmap \in Nat /\ m.delta \in Nat

VARIABLES
    mrwrap,      \* Object::mrwrap
    alive,       \* the MapReduce objects allocated
    inputs,      \* the running command's input descriptors
    output,      \* its output descriptor
    userinputs,  \* what input commands have set; None where consumed
    global,      \* the settings of set commands
    cmd,         \* the running command: its name, step and pointers
    line,        \* the lines read
    status       \* "ok", "failed" (error->all) or "crashed"

oinkVars == <<mrwrap, alive, inputs, output, userinputs, global, cmd, line, status>>
vars == <<oinkVars, mapVars>>

-----------------------------------------------------------------------------
(* The commands, each by the steps of its run().                           *)

Inputs(c) == IF c = "degree_weight" THEN 2 ELSE 1

Run(c) ==
    CASE c = "degree_weight" ->
           <<<<"read", "e", 1>>, <<"read", "d", 2>>, <<"create", "x">>,
             <<"alter", "x">>, <<"output", "x">>, <<"cleanup">>>>
      [] c = "histo" ->
           <<<<"read", "x", 1>>, <<"own", "x">>, <<"alter", "x">>,
             <<"output", "x">>, <<"own", "x">>, <<"alter", "x">>, <<"cleanup">>>>
      [] c = "pagerank" ->
           <<<<"read", "x", 1>>, <<"create", "v">>, <<"create", "r">>,
             <<"alter", "v">>, <<"output", "x">>, <<"cleanup">>>>

Commands == {"degree_weight", "histo", "pagerank"}
ReadsFiles(c) == c # "histo"

Idle == cmd.name = "none"
Ready == status = "ok" /\ mstage = "idle"
At(step) ==
    /\ Ready
    /\ cmd.name \in Commands
    /\ Run(cmd.name)[cmd.step][1] = step
Arg(n) == Run(cmd.name)[cmd.step][n]

InputTexts(c) == [1 .. Inputs(c) -> Texts]

\* The script's next line.
Line ==
    /\ Ready
    /\ Idle
    /\ line < MaxLines
    /\ line' = line + 1

-----------------------------------------------------------------------------
(* Object: the table of objects.                                           *)

Permanent(w, i) == w[i].mode = "PERMANENT"

\* 0 where the code returns -1.
FindMr(name) ==
    LET at == {i \in DOMAIN mrwrap : Permanent(mrwrap, i) /\ mrwrap[i].name = name}
    IN  IF at = {} THEN 0 ELSE Min(at)

Named(w) == {<<w[i].name, w[i].mr>> : i \in {j \in DOMAIN w : Permanent(w, j)}}

NewMr == Min((1 .. Cardinality(alive) + 1) \ alive)

Permanently(mr, name) == [mode |-> "PERMANENT", name |-> name, mr |-> mr]
Temporarily(mr) == [mode |-> "TEMPORARY", name |-> None, mr |-> mr]

AddMr(w, name, mr) ==
    Append(w, IF name = None THEN Temporarily(mr) ELSE Permanently(mr, name))

\* An object is created or copied and wrapped.
Wrap(name) ==
    /\ mrwrap' = AddMr(mrwrap, name, NewMr)
    /\ alive' = alive \cup {NewMr}

SurvivorsOfFirst(w) ==
    FoldLeft(LAMBDA acc, e :
                 IF acc.skip \/ e.mode = "PERMANENT"
                   THEN [acc EXCEPT !.kept = Append(@, e)]
                   ELSE [acc EXCEPT !.skip = TRUE],
             [kept |-> <<>>, skip |-> FALSE], w).kept

\* The loop moves on after it has moved the rest of the table down, so what
\* follows a deleted object is passed over.
Survivors(w) ==
    FoldLeft(LAMBDA acc, e :
                 IF acc.skip \/ e.mode = "PERMANENT"
                   THEN [kept |-> Append(acc.kept, e), skip |-> FALSE]
                   ELSE [acc EXCEPT !.skip = TRUE],
             [kept |-> <<>>, skip |-> FALSE], w).kept

Cleanup(w) ==
    /\ mrwrap' = Survivors(w)
    /\ alive' = alive \ ({w[i].mr : i \in DOMAIN w}
                           \ {mrwrap'[i].mr : i \in DOMAIN mrwrap'})
    /\ inputs' = <<>>
    /\ output' = None
    /\ userinputs' = <<>>

RenameAllOthers(w, index, name) ==
    [i \in DOMAIN w |-> IF i = index THEN Permanently(w[i].mr, name)
                        ELSE Temporarily(w[i].mr)]

\* The object gets the output's name; who had it becomes temporary.
Rename(w, index, name) ==
    [i \in DOMAIN w |->
        IF i = index THEN Permanently(w[i].mr, name)
        ELSE IF Permanent(w, i) /\ w[i].name = name
          THEN Temporarily(w[i].mr) ELSE w[i]]

IndexOf(mr) == CHOOSE i \in DOMAIN mrwrap : mrwrap[i].mr = mr

-----------------------------------------------------------------------------
(* Object: the inputs.                                                     *)

DefaultInput ==
    [prepend |-> None, substitute |-> None, multi |-> 1, mmode |-> 0,
     recurse |-> FALSE, self |-> FALSE, readfile |-> FALSE]

Changed(in, settings) ==
    [x \in DOMAIN in |-> IF x \in DOMAIN settings THEN settings[x] ELSE in[x]]

ExpandPath(p, r, prepend, substitute, multi) ==
    [dir |-> prepend, name |-> p.name,
     rank |-> CASE ~p.percent -> None
                [] p.percent /\ substitute = 0 -> r
                [] OTHER -> (r % substitute) + 1,
     copy |-> IF p.star THEN multi ELSE None]

PathsOf(text, in, r) ==
    LET prepend == IF in.prepend # None THEN in.prepend ELSE global.prepend
        substitute ==
            IF in.substitute # None THEN in.substitute ELSE global.substitute
    IN  FlattenSeq([i \in DOMAIN Strings[text] |->
                       [j \in 1 .. in.multi |->
                           ExpandPath(Strings[text][i], r, prepend, substitute, j)]])

SearchUnbounded(user, i) ==
    LET stops == {k \in DOMAIN user : user[k] = None \/ user[k].index = i}
    IN  IF stops = {} \/ user[Min(stops)] = None THEN 0 ELSE Min(stops)

\* The search for the settings of input i: their position, one past the end if
\* there are none, or 0 when it meets an entry that has been consumed.
Search(user, i) ==
    LET stops == {k \in DOMAIN user : user[k] = None \/ user[k].index = i}
    IN  IF stops = {} THEN Len(user) + 1
        ELSE IF user[Min(stops)] = None THEN 0 ELSE Min(stops)

AddInput(acc, i, text) ==
    LET k == Search(acc.user, i)
        in == IF k > Len(acc.user) THEN DefaultInput ELSE acc.user[k].set
        descriptor ==
            IF FindMr(text) > 0
              THEN [mode |-> "MR", mrindex |-> FindMr(text), set |-> in]
              ELSE [mode |-> "PATH", set |-> in,
                    strings |-> [r \in Rank |-> PathsOf(text, in, r)]]
    IN  IF acc.crash \/ k = 0
        THEN [inputs |-> acc.inputs, user |-> acc.user, crash |-> TRUE]
        ELSE [inputs |-> Append(acc.inputs, descriptor),
              user |-> IF k \in DOMAIN acc.user THEN [acc.user EXCEPT ![k] = None]
                       ELSE acc.user,
              crash |-> FALSE]

AddInputs(texts) ==
    FoldLeft(LAMBDA acc, i : AddInput(acc, i, texts[i]),
             [inputs |-> <<>>, user |-> userinputs, crash |-> FALSE],
             [i \in DOMAIN texts |-> i])

-----------------------------------------------------------------------------
(* Lines of the script.                                                    *)

\* before, renamed and map say what the command found, what it named, and a
\* map line's arguments.
Begin(name) ==
    [name |-> name, step |-> 1, ptr |-> [x \in {} |-> 0],
     before |-> Named(mrwrap), renamed |-> {}, map |-> None]
NoCommand == [Begin("none") EXCEPT !.before = {}]

Init ==
    /\ MapInit
    /\ mrwrap = <<>>
    /\ alive = {}
    /\ inputs = <<>>
    /\ output = None
    /\ userinputs = <<>>
    /\ global = [prepend |-> None, substitute |-> 0]
    /\ cmd = NoCommand
    /\ line = 0
    /\ status = "ok"

MrLine(name) ==
    /\ Line
    /\ IF FindMr(name) > 0
         THEN status' = "failed" /\ UNCHANGED <<mrwrap, alive>>
         ELSE Wrap(name) /\ UNCHANGED status
    /\ cmd' = NoCommand
    /\ UNCHANGED <<inputs, output, userinputs, global, mapVars>>

SetLine(prepend, substitute) ==
    /\ Line
    /\ global' = [prepend |-> prepend, substitute |-> substitute]
    /\ cmd' = NoCommand
    /\ UNCHANGED <<mrwrap, alive, inputs, output, userinputs, status, mapVars>>

InputLine(i, settings) ==
    /\ Line
    /\ LET k == Search(userinputs, i)
       IN  userinputs' =
             IF k \in DOMAIN userinputs
               THEN [userinputs EXCEPT ![k] =
                       [index |-> i, set |-> Changed(@.set, settings)]]
               ELSE Append(userinputs,
                           [index |-> i, set |-> Changed(DefaultInput, settings)])
    /\ cmd' = NoCommand
    /\ UNCHANGED <<mrwrap, alive, inputs, output, global, status, mapVars>>

CommandLine(c, texts, file, name) ==
    /\ Line
    /\ Len(texts) = Inputs(c)
    /\ LET added == AddInputs(texts)
       IN  /\ inputs' = added.inputs
           /\ userinputs' = added.user
           /\ status' = IF added.crash THEN "crashed" ELSE "ok"
    /\ output' = [file |-> file, name |-> name]
    /\ cmd' = Begin(c)
    /\ UNCHANGED <<mrwrap, alive, global, mapVars>>

DeleteLine(name) ==
    /\ Line
    /\ FindMr(name) > 0
    /\ Cleanup([mrwrap EXCEPT ![FindMr(name)].mode = "DELETE"])
    /\ cmd' = NoCommand
    /\ UNCHANGED <<global, status, mapVars>>

\* The test for an object of the new name lets the first of the table pass.
CopyLine(name, new) ==
    /\ Line
    /\ FindMr(name) > 0
    /\ IF FindMr(new) > 1
         THEN status' = "failed" /\ UNCHANGED <<mrwrap, alive>>
         ELSE Wrap(new) /\ UNCHANGED status
    /\ cmd' = NoCommand
    /\ UNCHANGED <<inputs, output, userinputs, global, mapVars>>

\* map/file, map/char and map/string.  The names are not expanded; an unknown
\* function is looked up as NULL, which nothing tests before it is called.
MapLine(name, m) ==
    /\ Line
    /\ FindMr(name) > 0
    /\ MapCall([paths |-> [r \in Rank |->
                    [i \in DOMAIN Strings[m.text] |->
                        [dir |-> None, name |-> Strings[m.text][i].name,
                         rank |-> None, copy |-> None]]],
                self |-> m.self, recurse |-> m.recurse, readfile |-> m.readfile,
                split |-> m.split, nmap |-> m.nmap, delta |-> m.delta, known |-> m.known])
    /\ cmd' = [Begin("map") EXCEPT !.map = m]
    /\ UNCHANGED <<mrwrap, alive, inputs, output, userinputs, global, status>>

\* map/char and map/string free the names even when they lie in the line
\* read, which the allocator answers with an abort.
FreeStrings ==
    /\ Ready
    /\ cmd.name = "map"
    /\ IF cmd.map.split # "no" /\ cmd.map.text \notin Variables
         THEN status' = "crashed" /\ UNCHANGED cmd
         ELSE cmd' = NoCommand /\ UNCHANGED status
    /\ UNCHANGED <<mrwrap, alive, inputs, output, userinputs, global, line, mapVars>>

-----------------------------------------------------------------------------
(* Steps of a command.                                                     *)

Points(name, mr) == [x \in DOMAIN cmd.ptr \cup {name} |->
                        IF x = name THEN mr ELSE cmd.ptr[x]]
Advance(ptr) == cmd' = [cmd EXCEPT !.step = @ + 1, !.ptr = ptr]

\* Object::input() of an object's name.
ReadObject ==
    /\ At("read")
    /\ inputs[Arg(3)].mode = "MR"
    /\ Advance(Points(Arg(2), mrwrap[inputs[Arg(3)].mrindex].mr))
    /\ UNCHANGED <<mrwrap, alive, inputs, output, userinputs, global, line,
                   status, mapVars>>

\* Object::input() of files: a temporary object whose map() reads them.
ReadPaths ==
    /\ At("read")
    /\ inputs[Arg(3)].mode = "PATH"
    /\ Wrap(None)
    /\ LET in == inputs[Arg(3)].set
       IN  IF ~ReadsFiles(cmd.name) \/ in.mmode # 0
             THEN status' = "failed" /\ UNCHANGED <<cmd, mapVars>>
             ELSE /\ MapCall([paths |-> inputs[Arg(3)].strings, self |-> in.self,
                              recurse |-> in.recurse, readfile |-> in.readfile,
                              split |-> "no", nmap |-> 0, delta |-> 0, known |-> TRUE])
                  /\ Advance(Points(Arg(2), NewMr))
                  /\ UNCHANGED status
    /\ UNCHANGED <<inputs, output, userinputs, global, line>>

CreateMr ==
    /\ At("create")
    /\ Wrap(None)
    /\ Advance(Points(Arg(2), NewMr))
    /\ UNCHANGED <<inputs, output, userinputs, global, line, status, mapVars>>

\* if (obj->permanent(mr)) mr = obj->copy_mr(mr)
OwnMr ==
    /\ At("own")
    /\ IF Permanent(mrwrap, IndexOf(cmd.ptr[Arg(2)]))
         THEN Wrap(None) /\ Advance(Points(Arg(2), NewMr))
         ELSE Advance(cmd.ptr) /\ UNCHANGED <<mrwrap, alive>>
    /\ UNCHANGED <<inputs, output, userinputs, global, line, status, mapVars>>

\* The command's map(), collate() and reduce() calls on an object.
Alter ==
    /\ At("alter")
    /\ Advance(cmd.ptr)
    /\ UNCHANGED <<mrwrap, alive, inputs, output, userinputs, global, line,
                   status, mapVars>>

\* Object::output(); histo gives it no method that writes a file.
Output ==
    /\ At("output")
    /\ mrwrap' = IF output.name = None THEN mrwrap
                 ELSE Rename(mrwrap, IndexOf(cmd.ptr[Arg(2)]), output.name)
    /\ status' = IF output.file /\ ~ReadsFiles(cmd.name) THEN "failed" ELSE "ok"
    /\ cmd' = [cmd EXCEPT !.step = @ + 1,
                          !.renamed = IF output.name = None THEN {}
                                      ELSE {<<output.name, cmd.ptr[Arg(2)]>>}]
    /\ UNCHANGED <<alive, inputs, output, userinputs, global, line, mapVars>>

EndCommand ==
    /\ At("cleanup")
    /\ Cleanup(mrwrap)
    /\ cmd' = [cmd EXCEPT !.name = "none", !.ptr = [x \in {} |-> 0]]
    /\ UNCHANGED <<global, line, status, mapVars>>

CommandStep == ReadObject \/ ReadPaths \/ CreateMr \/ OwnMr \/ Alter \/ Output
ScriptStep == \/ CommandStep \/ EndCommand \/ FreeStrings
              \/ MapStep /\ UNCHANGED oinkVars

ScriptLine ==
    \/ \E name \in Names : MrLine(name) \/ DeleteLine(name)
    \/ \E name, new \in Names : CopyLine(name, new)
    \/ \E name \in Names, m \in MapLines : MapLine(name, m)
    \/ \E p \in Prepends, n \in Substitutes : SetLine(p, n)
    \/ \E i \in 1 .. 2, settings \in Settings : InputLine(i, settings)
    \/ \E c \in Commands, file \in BOOLEAN, name \in Names \cup {None} :
          \E texts \in InputTexts(c) : CommandLine(c, texts, file, name)

Next == ScriptStep \/ ScriptLine

\* The ranks run what a line says; nobody has to write another line.
Spec == Init /\ [][Next]_vars /\ WF_vars(ScriptStep)

-----------------------------------------------------------------------------
(* Properties.                                                             *)

Entry == [mode : {"TEMPORARY", "PERMANENT", "DELETE"}, name : Names \cup {None}, mr : Nat]

\* An entry without a name is temporary, inputs point into the table, and every
\* file of a plan has a task (mrwrap, userinputs, filemap).
TypeOK ==
    /\ mrwrap \in Seq(Entry)
    /\ \A e \in Range(mrwrap) : (e.name = None) = (e.mode = "TEMPORARY")
    /\ alive \subseteq Nat
    /\ \A in \in Range(inputs) :
           in.mode = "MR" => in.mrindex \in DOMAIN mrwrap
    /\ \A user \in Range(userinputs) :
           user = None \/ DOMAIN user.set = DOMAIN DefaultInput
    /\ line \in 0 .. MaxLines
    /\ status \in {"ok", "failed", "crashed"}
    /\ mstage \in {"idle", "find", "hand", "files", "size", "plan", "grow",
                   "chunks", "failed", "crashed"}
    /\ tasksperfile \in [1 .. Len(tasksperfile) -> Nat \ {0}]

\* No command lets go of an object that had a name when it began, or of the
\* name, unless its output took the name or is that object (output, cleanup).
NamesKept ==
    \A held \in cmd.before :
        \/ held \in Named(mrwrap)
        \/ \E renamed \in cmd.renamed : held[1] = renamed[1] \/ held[2] = renamed[2]

\* cleanup() leaves at most half of the temporary objects, which is all that
\* keeps a long script from using up the memory.
Temporaries(w) == {i \in DOMAIN w : ~Permanent(w, i)}
LeftoverHalved ==
    [][EndCommand => 2 * Cardinality(Temporaries(mrwrap'))
                        <= Cardinality(Temporaries(mrwrap))]_vars

\* These commands crash only where one of several inputs follows one whose
\* settings have been consumed (add_input), where map/char or map/string frees a
\* name that is no variable's, and in a map() of an unknown function or of no
\* task (map_chunks).  Bad input that the code tests for is an error instead.
CallCrashes == ~margs.known \/ (Splits /\ margs.nmap = 0 /\ nfile = 0)
CrashesOnlyIf ==
    /\ status = "crashed" =>
        \/ /\ cmd.name \in Commands /\ Len(inputs) < Inputs(cmd.name)
           /\ None \in Range(userinputs)
        \/ cmd.name = "map" /\ cmd.map.split # "no" /\ cmd.map.text \notin Variables
    /\ mstage = "crashed" => CallCrashes

\* The pieces of a file do not overlap and begin at a separator, and when the
\* call returns they are the whole file; a whole file is given once, or once to
\* each rank that listed it (map_file_wrapper, map_tasks).
ChunksDivide ==
    /\ \A x, y \in given : x.list = y.list /\ x.file = y.file /\ x # y =>
           x.to <= y.from \/ y.to <= x.from
    /\ \A x \in given : x.from # 0 =>
           x.from - Shift \in Disk[files[0][x.file]].seps
    /\ mstage = "idle" /\ margs.split # "no" => \A i \in 1 .. nfile :
           UNION {x.from .. x.to - 1 : x \in {y \in given : y.file = i}} = 0 .. Size(i) - 1
    /\ mstage = "idle" /\ margs.split = "no" => Cardinality(given) = nmap

\* Planning ends when the files have a character for every task asked for, or
\* no more tasks are asked for than there are files (map_chunks).
MapEnds ==
    mstage = "plan" /\ (Total >= nmap \/ nmap = nfile)
        ~> mstage \in {"idle", "failed", "crashed"}
=============================================================================
