----------------------------- MODULE MrCollectives -----------------------------
(***************************************************************************)
(* The calls of a MapReduce object that the processes make together        *)
(* (mapreduce.cpp): map with its three ways to share the tasks, aggregate, *)
(* broadcast, gather, collate and scrunch.  Process p has the object p of  *)
(* the world w.  r[p] is where p is in the running call: at names the next *)
(* step.  MPI's collective operations take all processes at once.          *)
(***************************************************************************)
EXTENDS MapReduceObject, ConvertKmv, Irregular

CONSTANTS Shares,       \* what the processes may hold at the start: [Ranks -> pairs]
          Task,         \* [1..number of tasks -> the pairs a task emits]
          CollapseKeys, \* keys given to scrunch
          IntMaxes,     \* values of INTMAX, the largest size of one MPI message
          FreePages, OutOfCores,
          WideBroadcast, \* may a program broadcast a store of more than one page?
          MaxCalls      \* bound: calls in one program

ASSUME CollectiveAssumption ==
  /\ Shares \subseteq [Ranks -> Seq((DOMAIN HashOf) \X Nat)] /\ IntMaxes \subseteq Nat \ {0}
  /\ \A i \in DOMAIN Task : Task[i] \in Seq((DOMAIN HashOf) \X Nat)
  /\ FreePages \subseteq BOOLEAN /\ OutOfCores \subseteq {-1, 0, 1} /\ WideBroadcast \in BOOLEAN
  /\ MaxCalls \in Nat

VARIABLES w,            \* the processes' objects
          net,          \* messages on their way
          r,            \* [Ranks -> where the process is in the call]
          call,         \* the running call: [op, arg], op = "none" between calls
          mode,         \* settings of the run: [all2all, eager, intmax]
          held,         \* [kind, data]: what the processes held when the last call returned
          calls

vars == <<w, net, r, call, mode, held, calls>>

NoCall == [op |-> "none", arg |-> 0]
Rest == [at |-> "idle", ipage |-> 0, npage |-> 0, start |-> 0, stop |-> 0, nkey |-> 0,
         peer |-> 0, from |-> {}, task |-> 0, ndone |-> 0, buf |-> Null, tags |-> <<>>]
At(p, place) == r[p].at = place
All(place) == \A p \in Ranks : At(p, place)
Goes(p, place) == [r[p] EXCEPT !.at = place]
Step(p, rec) == r' = [r EXCEPT ![p] = rec]
AllStep(rec(_)) == r' = [p \in Ranks |-> rec(p)]
Free(p) == MayGoOn(net, p, mode.eager)

Pages(v, p) == Len(v.kv[Kv(p)].pages)
\* A scan of a key/multivalue store reads blocks of values into a page of its own.
ReadGroups(v, p) == LET mv == Request(v, p, 1) IN KmvContents(mv.w, p, mv.page).pairs
StoreOf(v, p) == IF Live(v, p) THEN Contents(v, Kv(p)).pairs ELSE ReadGroups(v, p)
HeldBy(v) == [kind |-> IF Live(v, 0) THEN "kv" ELSE "kmv", data |-> [p \in Ranks |-> StoreOf(v, p)]]
\* Every process does its part of a step that needs all of them.
Each(v, Do(_, _)) == FoldLeft(LAMBDA u, p : Do(u, p - 1), v, [p \in 1..N |-> p])

-----------------------------------------------------------------------------
Filled(v, share) ==
  Each(v, LAMBDA u, p : CompleteStore(AddPairs(CreateStore(u, Kv(p)), Kv(p), share[p]), Kv(p)))

Init ==
  /\ \E free \in FreePages, value \in OutOfCores, share \in Shares :
       w = Settle(Filled(NewProcess(Ranks, free, value), share))
  /\ mode \in [all2all : BOOLEAN, eager : BOOLEAN, intmax : IntMaxes]
  /\ net = NoMessages /\ r = [p \in Ranks |-> Rest]
  /\ call = NoCall /\ calls = 0
  /\ held = HeldBy(w)

\* The program makes the next call, on every process.
Start(op, arg, first) ==
  /\ call = NoCall /\ calls < MaxCalls /\ w.error = ""
  /\ op # "map" => held.kind = "kv"
  /\ call' = [op |-> op, arg |-> arg] /\ calls' = calls + 1
  /\ r' = [p \in Ranks |-> [Rest EXCEPT !.at = first]]
  /\ UNCHANGED <<w, net, mode, held>>

StartMap == \E style \in 0..2, addflag \in BOOLEAN : Start("map", <<style, addflag>>, "map")
StartAggregate == \E op \in {"aggregate", "collate"} : Start(op, 0, "aggregate")
StartGather == \E n \in 1..N : Start("gather", n, "gather")
StartScrunch == \E n \in 1..N, key \in CollapseKeys : Start("scrunch", <<n, key>>, "gather")
StartBroadcast ==
  \E root \in Ranks : (WideBroadcast \/ Pages(w, root) = 1) /\ Start("broadcast", root, "broadcast")

\* complete() agrees on the largest pair, then the number of pairs is summed: all
\* processes are there.  broadcast's root has nothing to complete.
Completed(v, p) ==
  LET dummy == call.op = "broadcast" /\ p = call.arg
  IN  Cleanup(IF dummy THEN CompleteDummy(v, Kv(p)) ELSE CompleteStore(v, Kv(p)), p)
Largest1(v) == Max({v.kv[Kv(p)].msize : p \in Ranks})
SameSize(v) == Each(v, LAMBDA u, p : [u EXCEPT !.kv[Kv(p)].msize = Largest1(v)])

Return(v) ==
  /\ w' = Settle(v)
  /\ held' = HeldBy(v)
  /\ r' = [p \in Ranks |-> Rest] /\ call' = NoCall

Complete ==
  /\ All("complete") /\ w.error = ""
  /\ LET v == SameSize(Each(w, Completed)) IN
     IF call.op \in {"collate", "scrunch"}
     THEN w' = v /\ AllStep(LAMBDA p : Goes(p, "group")) /\ UNCHANGED <<call, held>>
     ELSE Return(v)
  /\ UNCHANGED <<net, mode, calls>>

-----------------------------------------------------------------------------
(* collate and scrunch, after aggregate and gather: convert or collapse *)

ConvertOn(d) ==
  CASE d.c.phase = "partition" -> KvToUnique(d.w, d.c)
    [] d.c.phase = "sets" -> UniqueToKmv(d.w, d.c)
    [] d.c.phase = "fill" -> FillSet(d.w, d.c)
    [] d.c.phase = "drop" -> EndPartition(d.w, d.c)
    [] OTHER -> d
ConvertSteps == 16      \* bound: partitions and sets of one conversion
Converted(v, p) ==
  LET done == FoldLeft(LAMBDA d, k : ConvertOn(d), BeginConvert(v, p, Kv(p), "convert"), [k \in 1..ConvertSteps |-> k])
  IN  EndConvert(done.w, done.c)
Collapsed(v, p, key) == DeleteStore(KmvComplete(CollapseKv(v, p, Kv(p), key), p), Kv(p))

Group(p) ==
  /\ At(p, "group")
  /\ LET v == Allocate(CreateKmv(w, p), Kv(p)) IN
     w' = Cleanup(IF call.op = "collate" THEN Converted(v, p) ELSE Collapsed(v, p, call.arg[2]), p)
  /\ Step(p, Goes(p, "grouped"))
  /\ UNCHANGED <<net, call, mode, held, calls>>

Grouped == All("grouped") /\ w.error = "" /\ Return(w) /\ UNCHANGED <<net, mode, calls>>

-----------------------------------------------------------------------------
(* map *)

Emits(v, p, itask) == AddPairs(v, Kv(p), Task[itask + 1])
NTask == Len(Task)
Share(p, style) ==
  IF style = 0 THEN LET lo == (p * NTask) \div N  hi == ((p + 1) * NTask) \div N
                    IN  [i \in 1..(hi - lo) |-> lo + i - 1]
  ELSE SelectSeq([i \in 1..NTask |-> i - 1], LAMBDA t : t % N = p)

\* Tasks in chunks or strided are done at once; a master deals them out otherwise.
MapBegin(p) ==
  /\ At(p, "map")
  /\ LET v == Prepared(w, p, call.arg[2]) IN
     w' = IF call.arg[1] = 2 THEN v ELSE FoldLeft(LAMBDA u, t : Emits(u, p, t), v, Share(p, call.arg[1]))
  /\ Step(p, IF call.arg[1] # 2 THEN Goes(p, "complete")
             ELSE [Goes(p, IF p = 0 THEN "deal" ELSE "task") EXCEPT !.peer = 1])
  /\ UNCHANGED <<net, call, mode, held, calls>>

\* The master sends the next task, or -1 when there is none, to process q.
Hand(q, next) ==
  LET more == r[0].task < NTask IN
  /\ net' = Sent(next, 0, q, Message(0, "task", IF more THEN r[0].task ELSE -1))
  /\ r' = [r EXCEPT ![0].task = @ + (IF more THEN 1 ELSE 0), ![0].ndone = @ + (IF more THEN 0 ELSE 1),
                    ![0].peer = q + 1, ![0].at = IF At(0, "deal") /\ q < N - 1 THEN "deal" ELSE "serve"]

Deal == At(0, "deal") /\ Free(0) /\ Hand(r[0].peer, net) /\ UNCHANGED <<w, call, mode, held, calls>>
Serve(q) ==
  /\ At(0, "serve") /\ Free(0) /\ r[0].ndone < N - 1 /\ HasMessage(net, q, 0, 0)
  /\ Hand(q, Received(net, q, 0, 0))
  /\ UNCHANGED <<w, call, mode, held, calls>>
ServeEnd == 
  /\ At(0, "serve") /\ Free(0) /\ r[0].ndone = N - 1 /\ Step(0, Goes(0, "complete"))
  /\ UNCHANGED <<w, net, call, mode, held, calls>>

DoTask(p) ==
  /\ At(p, "task") /\ Free(p) /\ HasMessage(net, 0, p, 0)
  /\ LET itask == Taken(net, 0, p, 0).data
         next  == Received(net, 0, p, 0)
     IN  IF itask < 0 THEN net' = next /\ Step(p, Goes(p, "complete")) /\ UNCHANGED w
         ELSE /\ w' = Emits(w, p, itask)
              /\ net' = Sent(next, p, 0, Message(0, "done", itask)) /\ UNCHANGED r
  /\ UNCHANGED <<call, mode, held, calls>>

-----------------------------------------------------------------------------
(* aggregate *)

\* The pairs that p is sending of its page, with where they go.
Sending(p) == r[p].at \in {"setup", "exchange", "send", "wait"}
ToSend(p) ==
  IF ~Sending(p) THEN <<>>
  ELSE [i \in 1..(r[p].stop - r[p].start) |->
          LET pair == w.ram[w.kv[Kv(p)].page][r[p].start + i] IN <<pair, HashOf[pair[1]] % N>>]
Items == [p \in Ranks |-> ToSend(p)]

AggBegin(p) ==
  /\ At(p, "aggregate")
  /\ LET v  == CreateStore(Allocate(w, Kv(p)), Dest(p))
         cd == Request(v, p, 2)
         e  == Request(cd.w, p, 1)
         f  == Request(e.w, p, 1)
         g  == Request(f.w, p, 1)
     IN  /\ w' = g.w
         /\ Step(p, [Goes(p, "count") EXCEPT !.buf = cd.page, !.tags = <<cd.tag, e.tag, f.tag, g.tag>>])
  /\ UNCHANGED <<net, call, mode, held, calls>>

\* All go through as many pages as any process has.
AggCount ==
  /\ All("count") /\ w.error = ""
  /\ LET most == Max({Pages(w, p) : p \in Ranks}) IN
     AllStep(LAMBDA p : [Goes(p, "load") EXCEPT !.ipage = 1, !.npage = most])
  /\ UNCHANGED <<w, net, call, mode, held, calls>>

AggLoad(p) ==
  /\ At(p, "load")
  /\ LET mine == r[p].ipage <= Pages(w, p)
         n    == IF mine THEN w.kv[Kv(p)].pages[r[p].ipage].n ELSE 0
     IN  /\ w' = IF mine THEN RequestPage(w, Kv(p), r[p].ipage) ELSE w
         /\ Step(p, [Goes(p, "setup") EXCEPT !.start = 0, !.stop = n, !.nkey = n])
  /\ UNCHANGED <<net, call, mode, held, calls>>

ScaledStopTenth(start, stop, f) == start + (f[1] * (stop - start)) \div (10 * f[2])

\* setup on all processes, and the smallest of their fractions: when it is below 1 every
\* process scales back and they try again.
ScaledStop(start, stop, f) == start + (9 * f[1] * (stop - start)) \div (10 * f[2])
AggSetup ==
  /\ All("setup") /\ w.error = ""
  /\ LET f == Fraction(Items, 2 * PageSize, mode.intmax) IN
     AllStep(LAMBDA p : IF f[1] < f[2] THEN [r[p] EXCEPT !.stop = ScaledStop(r[p].start, @, f)]
                        ELSE [Goes(p, "exchange") EXCEPT !.peer = 1, !.from = RecvProcs(Items, p)])
  /\ UNCHANGED <<w, net, call, mode, held, calls>>

\* What p has received goes from the two-page buffer to the new store.
Received2(v, p, pairs) == AddBuffer([v EXCEPT !.ram[r[p].buf] = pairs], Dest(p), Len(pairs), r[p].buf)

AggAlltoall ==
  /\ mode.all2all /\ All("exchange")
  /\ w' = Each(w, LAMBDA v, p : Received2(v, p, Alltoallv(Items, p)))
  /\ AllStep(LAMBDA p : Goes(p, "sent"))
  /\ UNCHANGED <<net, call, mode, held, calls>>

\* With messages: at a barrier all have posted their receives, then each sends its own,
\* copies what it keeps, and waits for the others'.
AggBarrier ==
  /\ ~mode.all2all /\ All("exchange")
  /\ AllStep(LAMBDA p : Goes(p, "send"))
  /\ UNCHANGED <<w, net, call, mode, held, calls>>

AggSend(p) ==
  /\ At(p, "send")
  /\ LET k == r[p].peer  procs == SendProcs(ToSend(p), p) IN
     IF k > Len(procs) THEN Step(p, Goes(p, "wait")) /\ UNCHANGED net
     ELSE /\ net' = Sent(net, p, procs[k], [Message(0, "pairs", MessageTo(ToSend(p), p, k)) EXCEPT !.posted = TRUE])
          /\ Step(p, [r[p] EXCEPT !.peer = k + 1])
  /\ UNCHANGED <<w, call, mode, held, calls>>

AggWait(p) ==
  /\ At(p, "wait") /\ \A q \in r[p].from : HasMessage(net, q, p, 0)
  /\ LET Of(q) == IF q = p THEN SelfCopy(ToSend(p), p)
                  ELSE IF q \in r[p].from THEN Taken(net, q, p, 0).data ELSE <<>>
     IN  w' = Received2(w, p, FlattenSeq([q \in 1..N |-> Of(q - 1)]))
  /\ net' = FoldLeft(LAMBDA m, q : IF q - 1 \in r[p].from THEN Received(m, q - 1, p, 0) ELSE m,
                     net, [q \in 1..N |-> q])
  /\ Step(p, Goes(p, "sent"))
  /\ UNCHANGED <<call, mode, held, calls>>

AggAdvanceSkipsRest ==
  /\ All("sent") /\ w.error = ""
  /\ LET last == \A p \in Ranks : r[p].ipage = r[p].npage
     IN  AllStep(LAMBDA p : IF last THEN Goes(p, "swap") ELSE [Goes(p, "load") EXCEPT !.ipage = @ + 1])
  /\ UNCHANGED <<w, net, call, mode, held, calls>>

\* The next part of the page, or the next page once every process has sent its page.
AggAdvance ==
  /\ All("sent") /\ w.error = ""
  /\ LET done == \A p \in Ranks : r[p].stop = r[p].nkey
         last == \A p \in Ranks : r[p].ipage = r[p].npage
     IN  AllStep(LAMBDA p : IF ~done THEN [Goes(p, "setup") EXCEPT !.start = r[p].stop, !.stop = r[p].nkey]
                            ELSE IF last THEN Goes(p, "swap")
                            ELSE [Goes(p, "load") EXCEPT !.ipage = @ + 1])
  /\ UNCHANGED <<w, net, call, mode, held, calls>>

AggSwapKeepsPages(p) ==
  /\ At(p, "swap")
  /\ w' = MoveDest(DeleteStore(w, Kv(p)), p)
  /\ Step(p, Goes(p, "complete"))
  /\ UNCHANGED <<net, call, mode, held, calls>>

AggSwap(p) ==
  /\ At(p, "swap")
  /\ w' = MoveDest(DeleteStore(FoldLeft(LAMBDA v, tag : Unmark(v, p, tag), w, r[p].tags), Kv(p)), p)
  /\ Step(p, Goes(p, "complete"))
  /\ UNCHANGED <<net, call, mode, held, calls>>

-----------------------------------------------------------------------------
(* broadcast *)

BcBegin(p) ==
  /\ At(p, "broadcast")
  /\ w' = IF p = call.arg THEN Allocate(w, Kv(p)) ELSE CreateStore(DeleteStore(w, Kv(p)), Kv(p))
  /\ Step(p, Goes(p, "bcount"))
  /\ UNCHANGED <<net, call, mode, held, calls>>

BcCount ==
  /\ All("bcount") /\ w.error = ""
  /\ AllStep(LAMBDA p : [Goes(p, "bpage") EXCEPT !.ipage = 1, !.npage = Pages(w, call.arg)])
  /\ UNCHANGED <<w, net, call, mode, held, calls>>

\* A page of the root arrives in the others' own page of memory, over what that page
\* holds, and is added from there.
Arrived(v, p, pairs) ==
  LET own  == v.kv[Kv(p)].page
      page == pairs \o SubSeq(v.ram[own], Len(pairs) + 1, Len(v.ram[own]))
  IN  AddBuffer([v EXCEPT !.ram[own] = page], Kv(p), Len(pairs), own)
BcPage ==
  /\ All("bpage") /\ w.error = ""
  /\ LET root  == call.arg
         v     == RequestPage(w, Kv(root), r[root].ipage)
         pairs == PairsIn(v, Kv(root), r[root].ipage)
     IN  w' = Each(v, LAMBDA u, p : IF p = root THEN u ELSE Arrived(u, p, pairs))
  /\ AllStep(LAMBDA p : IF r[p].ipage = r[p].npage THEN Goes(p, "complete") ELSE [r[p] EXCEPT !.ipage = @ + 1])
  /\ UNCHANGED <<net, call, mode, held, calls>>

-----------------------------------------------------------------------------
(* gather: process p < NLo collects from p + NLo, p + 2 NLo, ... one after the other; *)
(* nothing moves when all are to hold pairs.                                           *)

NLo == IF call.op = "gather" THEN call.arg ELSE call.arg[1]

GatherBegin(p) ==
  /\ At(p, "gather")
  /\ LET buf == Request(AppendStore(w, Kv(p)), p, 1) IN
     IF NLo = N THEN UNCHANGED w /\ Step(p, Goes(p, IF call.op = "scrunch" THEN "group" ELSE "grouped"))
     ELSE IF p < NLo
     THEN w' = buf.w /\ Step(p, [Goes(p, "ask") EXCEPT !.peer = p + NLo, !.buf = buf.page, !.tags = <<buf.tag>>])
     ELSE w' = Allocate(w, Kv(p)) /\ Step(p, [Goes(p, "asked") EXCEPT !.peer = p % NLo])
  /\ UNCHANGED <<net, call, mode, held, calls>>

GoAhead(m, p) == Sent(m, p, r[p].peer, Message(0, "flag", 0))
Unchanged4 == UNCHANGED <<call, mode, held, calls>>
Waits(p, place, tag) == At(p, place) /\ Free(p) /\ HasMessage(net, r[p].peer, p, tag)
Taking(p, tag) == Received(net, r[p].peer, p, tag)
Got(p, tag) == Taken(net, r[p].peer, p, tag).data

\* The receiver: a go-ahead before every message it is to get.
LoAsk(p) ==
  /\ At(p, "ask") /\ Free(p)
  /\ IF r[p].peer >= N
     THEN Step(p, Goes(p, "complete")) /\ w' = Unmark(w, p, r[p].tags[1]) /\ UNCHANGED net
     ELSE Step(p, Goes(p, "npage")) /\ net' = GoAhead(net, p) /\ UNCHANGED w
  /\ Unchanged4
LoPages(p) ==
  /\ Waits(p, "npage", 0) /\ net' = Taking(p, 0)
  /\ Step(p, [Goes(p, "page") EXCEPT !.npage = Got(p, 0), !.ipage = 1])
  /\ UNCHANGED w /\ Unchanged4

LoPage(p) ==
  /\ At(p, "page") /\ Free(p)
  /\ IF r[p].ipage > r[p].npage THEN Step(p, [Goes(p, "ask") EXCEPT !.peer = @ + NLo]) /\ UNCHANGED net
     ELSE Step(p, Goes(p, "nkey")) /\ net' = GoAhead(net, p)
  /\ UNCHANGED w /\ Unchanged4

LoKeys(p) ==
  /\ Waits(p, "nkey", 0) /\ net' = Taking(p, 0)
  /\ Step(p, [Goes(p, "section") EXCEPT !.nkey = Got(p, 0), !.start = 0])
  /\ UNCHANGED w /\ Unchanged4
LoSection(p) ==
  /\ At(p, "section") /\ Free(p)
  /\ IF r[p].start >= r[p].nkey THEN Step(p, [Goes(p, "page") EXCEPT !.ipage = @ + 1]) /\ UNCHANGED net
     ELSE Step(p, Goes(p, "sizes")) /\ net' = GoAhead(net, p)
  /\ UNCHANGED w /\ Unchanged4
LoSizes(p) ==
  /\ Waits(p, "sizes", 0) /\ net' = Taking(p, 0)
  /\ Step(p, [Goes(p, "data") EXCEPT !.stop = Got(p, 0)])
  /\ UNCHANGED w /\ Unchanged4
LoData(p) ==
  /\ Waits(p, "data", 1) /\ net' = Taking(p, 1)
  /\ w' = AddBuffer([w EXCEPT !.ram[r[p].buf] = Got(p, 1)], Kv(p), r[p].stop, r[p].buf)
  /\ Step(p, [Goes(p, "section") EXCEPT !.start = @ + r[p].stop])
  /\ Unchanged4

\* The sender, the same conversation from the other side.
HiPages(p) ==
  /\ Waits(p, "asked", 0)
  /\ net' = Sent(Taking(p, 0), p, r[p].peer, Message(0, "npage", Pages(w, p)))
  /\ Step(p, [Goes(p, "hpage") EXCEPT !.ipage = 1])
  /\ UNCHANGED w /\ Unchanged4
HiPage(p) ==
  /\ r[p].ipage <= Pages(w, p) /\ Waits(p, "hpage", 0)
  /\ LET n == w.kv[Kv(p)].pages[r[p].ipage].n IN
     /\ w' = RequestPage(w, Kv(p), r[p].ipage)
     /\ net' = Sent(Taking(p, 0), p, r[p].peer, Message(0, "nkey", n))
     /\ Step(p, [Goes(p, "hsection") EXCEPT !.nkey = n, !.start = 0])
  /\ Unchanged4
HiVacate(p) ==
  /\ At(p, "hpage") /\ Free(p) /\ r[p].ipage > Pages(w, p)
  /\ w' = CreateStore(DeleteStore(w, Kv(p)), Kv(p))
  /\ Step(p, Goes(p, "complete"))
  /\ UNCHANGED net /\ Unchanged4

\* As many pairs of the rest of the page as one message can take.
Rest1(p) == SubSeq(PairsIn(w, Kv(p), r[p].ipage), r[p].start + 1, r[p].nkey)
Section(p) == Max({k \in 0..Len(Rest1(p)) : BytesOf(SubSeq(Rest1(p), 1, k)) <= mode.intmax})
HiSection(p) ==
  /\ r[p].start < r[p].nkey /\ Waits(p, "hsection", 0)
  /\ net' = Sent(Taking(p, 0), p, r[p].peer, Message(0, "sizes", Section(p)))
  /\ Step(p, [Goes(p, "hdata") EXCEPT !.stop = Section(p)])
  /\ UNCHANGED w /\ Unchanged4
HiPageSent(p) ==
  /\ At(p, "hsection") /\ Free(p) /\ r[p].start >= r[p].nkey
  /\ Step(p, [Goes(p, "hpage") EXCEPT !.ipage = @ + 1])
  /\ UNCHANGED <<w, net>> /\ Unchanged4
HiData(p) ==
  /\ At(p, "hdata") /\ Free(p)
  /\ net' = Sent(net, p, r[p].peer, [Message(1, "data", SubSeq(Rest1(p), 1, r[p].stop)) EXCEPT !.posted = TRUE])
  /\ Step(p, [Goes(p, "hsection") EXCEPT !.start = @ + r[p].stop])
  /\ UNCHANGED w /\ Unchanged4

-----------------------------------------------------------------------------
StartCall == StartMap \/ StartAggregate \/ StartGather \/ StartScrunch \/ StartBroadcast
MapStep(p) == MapBegin(p) \/ DoTask(p) \/ Serve(p)
AggregateStep(p) == AggBegin(p) \/ AggLoad(p) \/ AggSend(p) \/ AggWait(p) \/ AggSwap(p)
GatherStep(p) ==
  \/ GatherBegin(p)
  \/ LoAsk(p) \/ LoPages(p) \/ LoPage(p) \/ LoKeys(p) \/ LoSection(p) \/ LoSizes(p) \/ LoData(p)
  \/ HiPages(p) \/ HiPage(p) \/ HiVacate(p) \/ HiSection(p) \/ HiPageSent(p) \/ HiData(p)
Together ==
  AggCount \/ AggSetup \/ AggAlltoall \/ AggBarrier \/ AggAdvance \/ BcCount \/ BcPage \/ Complete \/ Grouped

Busy == call # NoCall
Over == w.error # "" \/ (~Busy /\ calls = MaxCalls)
End == Over /\ UNCHANGED vars

Next ==
  \/ StartCall \/ Deal \/ ServeEnd \/ Together \/ End
  \/ \E p \in Ranks : MapStep(p) \/ AggregateStep(p) \/ GatherStep(p) \/ BcBegin(p) \/ Group(p)

\* Some process takes a step as long as the program is not over: weak fairness of Next,
\* which is enabled until then (no run ends in a deadlock).
Fairness == <>[]~Over => []<><<Next>>_vars
Spec == Init /\ [][Next]_vars /\ Fairness

-----------------------------------------------------------------------------
TypeOK ==
  /\ call.op \in {"none", "map", "aggregate", "collate", "gather", "scrunch", "broadcast"}
  /\ calls \in 0..MaxCalls /\ held.kind \in {"kv", "kmv"}
  /\ \A p \in Ranks : r[p].start \in 0..r[p].nkey
  /\ \A p, q \in Ranks : \A i \in DOMAIN net[p][q] : net[p][q][i].tag \in {0, 1}

\* The calls do together what the manual says each does in one step, in every order in
\* which the processes and their messages come.
Promised == INSTANCE DistributedPairs WITH data <- held.data, kind <- held.kind
ImplementsPairs == Promised!PairsSpec

\* What a process waits for is what comes next from its partner, although most messages
\* carry the same tag.
Awaited(p) ==
  CASE At(p, "npage") -> "npage" [] At(p, "nkey") -> "nkey" [] At(p, "sizes") -> "sizes" [] At(p, "data") -> "data"
    [] r[p].at \in {"asked", "hpage", "hsection"} -> "flag" [] At(p, "task") -> "task" [] OTHER -> "any"
Partner(p) == IF At(p, "task") THEN 0 ELSE r[p].peer
MessagesMatch ==
  \A p \in Ranks : LET tag == IF At(p, "data") THEN 1 ELSE 0 IN
    Awaited(p) # "any" /\ HasMessage(net, Partner(p), p, tag) => Taken(net, Partner(p), p, tag).kind = Awaited(p)

\* No message is taken for another, and between calls nothing is on its way and a process
\* has lent the page of its store and no other.
NothingLeft ==
  /\ MessagesMatch
  /\ ~Busy /\ w.error = "" =>
       /\ net = NoMessages
       /\ \A p \in Ranks : LET k == IF Live(w, p) THEN w.kv[Kv(p)] ELSE w.kv[Kmv(p)] IN
            Lent(w.mem[p]) = IF k.page = Null THEN {} ELSE {k.page[2]}

\* Every call returns on all processes when no pair is larger than a fair share of what a
\* process may receive at once, whether sends wait or not.
Limit == Min({2 * PageSize, mode.intmax})
FairPairs == \A p \in Ranks : \A i \in DOMAIN held.data[p] : 10 * N * Bytes(held.data[p][i]) <= 9 * Limit
Returns == (Busy /\ w.error = "" /\ FairPairs) ~> (~Busy \/ w.error # "")

-----------------------------------------------------------------------------
(* What the manual says and the code does not do *)

\* "the end result is that all processors have a copy of the key/value pairs initially
\* owned by the root processor" (doc/broadcast.html).
BroadcastCopies ==
  [][call.op = "broadcast" /\ call' = NoCall => \A p \in Ranks : held'.data[p] = held.data[call.arg]]_vars
===============================================================================
