------------------------------ MODULE LaneAccess ------------------------------
(***************************************************************************)
(* The memory access of one lane: rpa_in, two engines (one per memory      *)
(* channel) and rpa_out.  cla_in, cla_engine and cla_out have the same     *)
(* control.  rpa_in sends the address of a query to the engine of its      *)
(* channel and, separately, the query state to rpa_out; rpa_out pairs the  *)
(* n-th word of an engine with the n-th query state of that channel.       *)
(* Nothing but the order keeps them together.                              *)
(*                                                                         *)
(* rpa_in and rpa_out are free running.  The engines are kernels that the  *)
(* host starts and that end when they read CTRL_END_OF_STREAM, whatever    *)
(* is still on its way to them; the FIFOs survive until the next start.    *)
(***************************************************************************)
EXTENDS Integers, Sequences

CONSTANTS
  Query,      \* query states, each asking once
  Chn,        \* Chn[q]: channel of the word the query asks for
  Addr,       \* Addr[q]: its address in the channel
  Bank,       \* Bank[c][a]: the word at address a of channel c
  CmdDepth,   \* depth of vertex_cmd_0/1 and of the engine's out_data (16)
  VdsDepth,   \* depth of vds_0/1 (512)
  OutDepth,   \* depth of inner_connection_g1 and frp_out (13)
  Runs        \* bound: times the host starts the engines

Channel == {0, 1}

ASSUME LaneAssumption ==
  /\ Chn \in [Query -> Channel]
  /\ \A q \in Query : Addr[q] \in DOMAIN Bank[Chn[q]]
  /\ CmdDepth \in Nat \ {0} /\ VdsDepth \in Nat \ {0}
  /\ OutDepth \in Nat \ {0} /\ Runs \in Nat \ {0}

\* The word a query asks for.
Word(q) == Bank[Chn[q]][Addr[q]]

VARIABLES
  asked,    \* history: queries that arrived
  input,    \* input stream of rpa_in
  holding,  \* the task rpa_in works on, and whether its command is written
  cmd,      \* cmd[c]: vertex_cmd_c, addresses
  vds,      \* vds[c]: query states on their way to rpa_out
  engine,   \* engine[c]: "off", "loop" or "ctrl" (about to read in_ctrl)
  fetched,  \* fetched[c]: the word an engine has loaded and not yet written
  ctrl,     \* ctrl[c]: end tokens for the engine
  data,     \* data[c]: out_data of the engine
  word,     \* word[c]: word rpa_out_frp has read, waiting for a query state
  pair,     \* pair[c]: word and query state it is about to write
  inner,    \* inner[c]: inner_connection_g1[c] of rpa_out
  merge,    \* the pair merge_package has read
  flag,     \* its schedule_flag
  out,      \* frp_out
  answers,  \* history: set of pairs that left the lane
  host,     \* host: "idle", "running", "ending", "joining"
  runs      \* engine starts so far

inVars     == <<input, holding>>
engineVars == <<engine, fetched>>
outVars    == <<word, pair, inner, merge, flag, out>>
hostVars   == <<host, runs>>
vars == <<asked, inVars, cmd, vds, engineVars, ctrl, data, outVars, answers, hostVars>>

Empty(s) == s = <<>>
PerChannel(x) == [c \in Channel |-> x]
AllWords == {Word(q) : q \in Query}
Answer == [query : Query, word : AllWords]

TypeOK ==
  /\ asked \subseteq Query
  /\ input \in Seq(Query)
  /\ holding \in Seq([query : Query, sent : BOOLEAN])
  /\ cmd \in [Channel -> Seq(UNION {DOMAIN Bank[c] : c \in Channel})]
  /\ vds \in [Channel -> Seq(Query)]
  /\ engine \in [Channel -> {"off", "loop", "ctrl"}]
  /\ {fetched, data, word} \subseteq [Channel -> Seq(AllWords)]
  /\ ctrl \in [Channel -> Nat]
  /\ {pair, inner} \subseteq [Channel -> Seq(Answer)]
  /\ {merge, out} \subseteq Seq(Answer)
  /\ flag \in Channel
  /\ answers \subseteq Answer
  /\ host \in {"idle", "running", "ending", "joining"}
  /\ runs \in 0..Runs

Init ==
  /\ asked = {} /\ answers = {}
  /\ input = <<>> /\ holding = <<>>
  /\ cmd = PerChannel(<<>>) /\ vds = PerChannel(<<>>)
  /\ engine = PerChannel("off") /\ fetched = PerChannel(<<>>)
  /\ ctrl = PerChannel(0) /\ data = PerChannel(<<>>)
  /\ word = PerChannel(<<>>) /\ pair = PerChannel(<<>>)
  /\ inner = PerChannel(<<>>) /\ merge = <<>> /\ flag = 0 /\ out = <<>>
  /\ host = "idle" /\ runs = 0

-----------------------------------------------------------------------------
\* The router delivers a query to the lane.
Arrive(q) ==
  /\ q \notin asked
  /\ Len(input) < CmdDepth
  /\ input' = Append(input, q)
  /\ asked' = asked \cup {q}
  /\ UNCHANGED <<holding, cmd, vds, engineVars, ctrl, data, outVars, answers, hostVars>>

rpa_in ==
  /\ Empty(holding) /\ ~Empty(input)
  /\ holding' = <<[query |-> Head(input), sent |-> FALSE]>>
  /\ input' = Tail(input)
  /\ UNCHANGED <<asked, cmd, vds, engineVars, ctrl, data, outVars, answers, hostVars>>

\* Variant: the channel bit is ignored for the query state.
VdsChannelFixed(q) == 0

\* The channel whose vds stream takes the query state.
VdsChannel(q) == Chn[q]

\* vertex_cmd_c.write(cmd_pkg)
WriteCmd ==
  /\ ~Empty(holding) /\ ~Head(holding).sent
  /\ LET q == Head(holding).query IN
       /\ Len(cmd[Chn[q]]) < CmdDepth
       /\ cmd' = [cmd EXCEPT ![Chn[q]] = Append(@, Addr[q])]
       /\ holding' = <<[query |-> q, sent |-> TRUE]>>
  /\ UNCHANGED <<asked, input, vds, engineVars, ctrl, data, outVars, answers, hostVars>>

\* vds_c.write(qs_pkg)
WriteVds ==
  /\ ~Empty(holding) /\ Head(holding).sent
  /\ LET q == Head(holding).query
         c == VdsChannel(q)
     IN  /\ Len(vds[c]) < VdsDepth
         /\ vds' = [vds EXCEPT ![c] = Append(@, q)]
  /\ holding' = <<>>
  /\ UNCHANGED <<asked, input, cmd, engineVars, ctrl, data, outVars, answers, hostVars>>

-----------------------------------------------------------------------------
\* Code 01 and 00: a command is served first, whatever in_ctrl holds.
EngineRead(c) ==
  /\ engine[c] = "loop" /\ Empty(fetched[c]) /\ ~Empty(cmd[c])
  /\ fetched' = [fetched EXCEPT ![c] = <<Bank[c][Head(cmd[c])]>>]
  /\ cmd' = [cmd EXCEPT ![c] = Tail(@)]
  /\ UNCHANGED <<asked, inVars, vds, engine, ctrl, data, outVars, answers, hostVars>>

EngineWrite(c) ==
  /\ ~Empty(fetched[c])
  /\ Len(data[c]) < CmdDepth
  /\ data' = [data EXCEPT ![c] = Append(@, Head(fetched[c]))]
  /\ fetched' = [fetched EXCEPT ![c] = <<>>]
  /\ UNCHANGED <<asked, inVars, cmd, vds, engine, ctrl, outVars, answers, hostVars>>

\* Variant: in_ctrl is looked at before in_cmd.
MayEndAtOnce(c) == engine[c] = "loop" /\ ctrl[c] > 0

\* Code 10: no command and an end token.
MayEnd(c) == engine[c] = "loop" /\ ctrl[c] > 0 /\ Empty(cmd[c]) /\ Empty(fetched[c])

\* The FIFOs have been looked at; commands may arrive from here on unseen.
EngineSample(c) ==
  /\ MayEnd(c)
  /\ engine' = [engine EXCEPT ![c] = "ctrl"]
  /\ UNCHANGED <<asked, inVars, cmd, vds, fetched, ctrl, data, outVars, answers, hostVars>>

\* Variant: return without reading the token.
CtrlAfterEndKept(c) == ctrl[c]

\* The tokens left after in_ctrl.read().
CtrlAfterEnd(c) == ctrl[c] - 1

\* in_ctrl.read() returns CTRL_END_OF_STREAM: the kernel returns.  A word not
\* yet written to out_data would be gone.
EngineEnd(c) ==
  /\ engine[c] = "ctrl"
  /\ ctrl' = [ctrl EXCEPT ![c] = CtrlAfterEnd(c)]
  /\ engine' = [engine EXCEPT ![c] = "off"]
  /\ fetched' = [fetched EXCEPT ![c] = <<>>]
  /\ UNCHANGED <<asked, inVars, cmd, vds, data, outVars, answers, hostVars>>

-----------------------------------------------------------------------------
rpa_out_frp(c) ==
  /\ Empty(word[c]) /\ Empty(pair[c]) /\ ~Empty(data[c])
  /\ word' = [word EXCEPT ![c] = <<Head(data[c])>>]
  /\ data' = [data EXCEPT ![c] = Tail(@)]
  /\ UNCHANGED <<asked, inVars, cmd, vds, engineVars, ctrl, pair, inner, merge, flag,
                 out, answers, hostVars>>

\* in_qs.read() blocks until the query state is there.
ReadQs(c) ==
  /\ ~Empty(word[c]) /\ ~Empty(vds[c])
  /\ pair' = [pair EXCEPT ![c] = <<[query |-> Head(vds[c]), word |-> Head(word[c])]>>]
  /\ word' = [word EXCEPT ![c] = <<>>]
  /\ vds' = [vds EXCEPT ![c] = Tail(@)]
  /\ UNCHANGED <<asked, inVars, cmd, engineVars, ctrl, data, inner, merge, flag, out,
                 answers, hostVars>>

WritePair(c) ==
  /\ ~Empty(pair[c])
  /\ Len(inner[c]) < OutDepth
  /\ inner' = [inner EXCEPT ![c] = Append(@, Head(pair[c]))]
  /\ pair' = [pair EXCEPT ![c] = <<>>]
  /\ UNCHANGED <<asked, inVars, cmd, vds, engineVars, ctrl, data, word, merge, flag, out,
                 answers, hostVars>>

merge_package(c) ==
  /\ Empty(merge) /\ ~Empty(inner[c])
  /\ Empty(inner[1 - c]) \/ flag = 1 - c
  /\ merge' = <<Head(inner[c])>>
  /\ inner' = [inner EXCEPT ![c] = Tail(@)]
  /\ flag' = c
  /\ UNCHANGED <<asked, inVars, cmd, vds, engineVars, ctrl, data, word, pair, out,
                 answers, hostVars>>

WriteMerged ==
  /\ ~Empty(merge) /\ Len(out) < OutDepth
  /\ out' = Append(out, Head(merge))
  /\ merge' = <<>>
  /\ UNCHANGED <<asked, inVars, cmd, vds, engineVars, ctrl, data, word, pair, inner, flag,
                 answers, hostVars>>

\* free_run_frp_to_axis_stream passes the pair to uniform_sample.
Leave ==
  /\ ~Empty(out)
  /\ answers' = answers \cup {Head(out)}
  /\ out' = Tail(out)
  /\ UNCHANGED <<asked, inVars, cmd, vds, engineVars, ctrl, data, word, pair, inner, merge,
                 flag, hostVars>>

-----------------------------------------------------------------------------
\* krnl_rpa_engine[j].async_schedule_task() for both engines.
HostStart ==
  /\ host = "idle" /\ runs < Runs
  /\ engine' = PerChannel("loop")
  /\ host' = "running"
  /\ runs' = runs + 1
  /\ UNCHANGED <<asked, inVars, cmd, vds, fetched, ctrl, data, outVars, answers>>

\* end_ctrl writes one token per engine, engine 0 first.  The host does so
\* when query_statistic says so, which may be at any time; the last run of a
\* bounded instance is not ended.
EndCtrl ==
  /\ \/ host = "running" /\ runs < Runs /\ host' = "ending"
     \/ host = "ending" /\ host' = "joining"
  /\ LET c == IF host = "running" THEN 0 ELSE 1 IN
       ctrl' = [ctrl EXCEPT ![c] = @ + 1]
  /\ UNCHANGED <<asked, inVars, cmd, vds, engineVars, data, outVars, answers, runs>>

\* async_join() of both engines.
HostJoin ==
  /\ host = "joining" /\ engine = PerChannel("off")
  /\ host' = "idle"
  /\ UNCHANGED <<asked, inVars, cmd, vds, engineVars, ctrl, data, outVars, answers, runs>>

\* Every query of the instance is answered and the last run goes on idling.
Done ==
  /\ {a.query : a \in answers} = Query
  /\ runs = Runs
  /\ UNCHANGED vars

Work ==
  \/ rpa_in \/ WriteCmd \/ WriteVds \/ WriteMerged \/ Leave
  \/ \E c \in Channel : \/ EngineRead(c) \/ EngineWrite(c)
                        \/ EngineSample(c) \/ EngineEnd(c)
                        \/ rpa_out_frp(c) \/ ReadQs(c) \/ WritePair(c)
                        \/ merge_package(c)
  \/ HostStart \/ EndCtrl \/ HostJoin

Next == (\E q \in Query : Arrive(q)) \/ Work \/ Done

Spec == Init /\ [][Next]_vars

\* Free-running kernels, engines that run once started, and a host program
\* that goes through its loop.
Fairness ==
  /\ WF_vars(rpa_in) /\ WF_vars(WriteCmd) /\ WF_vars(WriteVds)
  /\ WF_vars(WriteMerged) /\ WF_vars(Leave)
  /\ \A c \in Channel :
       /\ WF_vars(EngineRead(c)) /\ WF_vars(EngineWrite(c))
       /\ WF_vars(EngineSample(c)) /\ WF_vars(EngineEnd(c))
       /\ WF_vars(rpa_out_frp(c)) /\ WF_vars(ReadQs(c)) /\ WF_vars(WritePair(c))
       /\ WF_vars(merge_package(c))
  /\ WF_vars(HostStart) /\ WF_vars(EndCtrl) /\ WF_vars(HostJoin)

FairSpec == Spec /\ Fairness

-----------------------------------------------------------------------------
\* Paired: a query leaves the lane with the word it asked for, however the two
\* channels, the two streams of a channel and engine restarts interleave.
Paired == \A a \in answers : a.word = Word(a.query)

\* NoStaleToken: an end token is never left behind for the next start of an
\* engine, which it would end as soon as the engine is idle.
NoStaleToken ==
  host = "idle" => \A c \in Channel : ctrl[c] = 0

\* rpa_in has written a command to channel c and not yet the query state.
BetweenWrites(c) ==
  ~Empty(holding) /\ Head(holding).sent /\ Chn[Head(holding).query] = c

\* InStep: a channel carries as many commands and words as query states (one
\* more while rpa_in is between its two writes), so that a word in rpa_out never
\* waits for a query state of another query and none is left without a word.
InStep ==
  \A c \in Channel :
    LET words == Len(cmd[c]) + Len(fetched[c]) + Len(data[c]) + Len(word[c])
    IN  words = Len(vds[c]) + (IF BetweenWrites(c) THEN 1 ELSE 0)

\* The queries inside the lane, up to the pair that is about to leave.
Inside ==
  {input[i] : i \in DOMAIN input}
  \cup {holding[i].query : i \in DOMAIN holding}
  \cup (UNION {{vds[c][i] : i \in DOMAIN vds[c]} : c \in Channel})
  \cup (UNION {{pair[c][i].query : i \in DOMAIN pair[c]} : c \in Channel})
  \cup (UNION {{inner[c][i].query : i \in DOMAIN inner[c]} : c \in Channel})
  \cup {merge[i].query : i \in DOMAIN merge}
  \cup {out[i].query : i \in DOMAIN out}

Pool == INSTANCE WorkPool WITH
  pool <- Inside, taken <- {a.query : a \in answers}

\* ImplementsPool: each query is answered exactly once, and is answered
\* although the host ends and restarts the engines at any moment.
ImplementsPool == Pool!Spec
=============================================================================
