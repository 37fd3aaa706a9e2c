------------------------------ MODULE LlmChains ------------------------------
(****************************************************************************)
(* The calls to language models and what stands around them: the analysis   *)
(* agent's provider chain behind the response cache, the trade history it   *)
(* asks the memory agent for, the daily cost it keeps in Redis, the strategy *)
(* agent's setup creator and the risk advisor.                              *)
(*                                                                          *)
(* One tick is of the order of the history's time to live; a provider call  *)
(* takes no time of its own, what matters is what other requests do between  *)
(* its steps.  market[s] counts price changes; the cache key sees only every *)
(* second one (a candle, rounded indicators), Bucket.                       *)
(****************************************************************************)
EXTENDS Integers, Sequences, FiniteSets

CONSTANTS
  Symbols,
  ChainPlans,   \* what is configured and what may fail, a set of sets of words
  Models,       \* free models in the OpenRouter rotation
  AnswerTtl,    \* ticks an answer stays in the cache
  HistoryTtl,   \* ticks a trade history stays in Redis
  MaxAnswers,   \* size limit of the cache
  MaxAnalyses, MaxClock, MaxMoves   \* bounds of the exploration

ASSUME ChainAssumption ==
  /\ Models \in Nat
  /\ {AnswerTtl, HistoryTtl, MaxAnswers, MaxAnalyses, MaxClock, MaxMoves} \subseteq Nat
  /\ AnswerTtl > 0 /\ MaxAnswers > 0
  /\ "none" \notin Symbols

VARIABLES
  setup,     \* the plan of this behaviour
  market,    \* price changes seen of each symbol
  clock,
  job,       \* the request each agent works on, or Idle: its message loop
             \* awaits one handler before it takes the next message
  answers,   \* the response cache, a partial function from keys
  history,   \* cached trade history of each symbol: whose trades, until when
  memory,    \* history requests the memory agent has not answered
  cost,      \* daily_llm_cost, what the providers billed, what no reply tracked
  begun      \* requests begun

chainVars == <<setup, market, clock, job, answers, history, memory, cost, begun>>

ChainAgents == {"analysis", "setup", "advice"}

Nothing == "none"
IdleJob == [pc |-> "idle"]
NoAnswer == [symbol |-> Nothing, view |-> 0]
Bucket(view) == view \div 2
Keyed(provider) == provider \in setup
May(fault) == fault \in setup

CallsTo(provider) == IF Keyed(provider) THEN <<provider>> ELSE <<>>

(* One try of the analysis: the first provider with a key, and after its
   failure the backups.  OpenRouter beside an Anthropic key is never called. *)
FirstChoice ==
  LET configured == CallsTo("anthropic") \o CallsTo("openrouter") \o CallsTo("groq")
  IN  IF configured = <<>> THEN <<>> ELSE <<configured[1]>>

Backups ==
  (IF Keyed("openrouter") THEN CallsTo("anthropic") ELSE <<>>)
    \o (IF FirstChoice \in {<<"anthropic">>, <<"openrouter">>} THEN CallsTo("groq") ELSE <<>>)

AnalysisChain ==
  FirstChoice \o Backups \o FirstChoice \o Backups \o FirstChoice

(* The creator asks each configured provider once; a placeholder is no key. *)
CreatorChain == CallsTo("openrouter") \o CallsTo("groq") \o CallsTo("openai")

ChainOf(kind) ==
  CASE kind = "analysis" -> AnalysisChain
    [] kind = "setup"    -> CreatorChain

KeyOf(a) == <<job[a].symbol, Bucket(job[a].view)>>

(* Handlers of the three agents; the risk agent's lock around the advisor is
   never contended, its loop has one message at a time. *)
Begin(a, sym) ==
  /\ job[a] = IdleJob
  /\ begun < MaxAnalyses
  /\ (a = "analysis") = ~May("agents")
  /\ begun' = begun + 1
  /\ job' = [job EXCEPT ![a] =
       [pc |-> IF a = "analysis" THEN "history" ELSE "call",
        symbol |-> sym, view |-> market[sym], trades |-> Nothing, heard |-> Nothing,
        calls |-> 0, tries |-> 0, seen |-> 0, answer |-> NoAnswer, age |-> 0,
        verdict |-> Nothing]]
  /\ UNCHANGED <<setup, market, clock, answers, history, memory, cost>>

GoOn(a, pc) == job' = [job EXCEPT ![a].pc = pc]

(* _get_historical_trades: the cached list, else a request on the channel
   all requests share.  An empty list in the cache counts as no list. *)
HistoryCached(a) ==
  /\ job[a].pc = "history"
  /\ LET held == history[job[a].symbol] IN
       \/ /\ held.of # Nothing /\ clock < held.until
          /\ job' = [job EXCEPT ![a].pc = "lookup", ![a].trades = held.of]
          /\ UNCHANGED memory
       \/ /\ held.of = Nothing \/ clock >= held.until
          /\ memory' = Append(memory, job[a].symbol)
          /\ GoOn(a, "asking")
  /\ UNCHANGED <<setup, market, clock, answers, history, cost, begun>>

(* The memory agent publishes to the channel: every handler subscribed at
   that moment takes the reply, whoever asked. *)
MemoryReplies ==
  /\ memory # <<>>
  /\ \E reply \in {Head(memory)} \cup {"empty"} \cup {"error" : f \in setup \cap {"memory"}} :
       job' = [a \in ChainAgents |-> IF job[a].pc = "asking"
                                 THEN [job[a] EXCEPT !.heard = reply] ELSE job[a]]
  /\ memory' = Tail(memory)
  /\ UNCHANGED <<setup, market, clock, answers, history, cost, begun>>

(* The bus delivers at most once. *)
MemoryLost ==
  /\ memory # <<>> /\ May("memory")
  /\ memory' = Tail(memory)
  /\ UNCHANGED <<setup, market, clock, job, answers, history, cost, begun>>

HistoryArrives(a) ==
  /\ job[a].pc = "asking"
  /\ job[a].heard # Nothing
  /\ LET reply == job[a].heard
         trades == IF reply \in Symbols THEN reply ELSE Nothing
     IN  /\ job' = [job EXCEPT ![a].pc = "lookup", ![a].trades = trades]
         /\ history' = IF reply = "error" THEN history
                       ELSE [history EXCEPT ![job[a].symbol] =
                               [of |-> trades, until |-> clock + HistoryTtl]]
  /\ UNCHANGED <<setup, market, clock, answers, memory, cost, begun>>

(* Five seconds without a reply; the request stays with the memory agent. *)
HistoryTimesOut(a) ==
  /\ job[a].pc = "asking"
  /\ job[a].heard = Nothing
  /\ May("memory")
  /\ GoOn(a, "lookup")
  /\ UNCHANGED <<setup, market, clock, answers, history, memory, cost, begun>>

(* Mutant: a hit renews the entry's time, as a least-recently-used cache does. *)
AfterHitRenewed(a, key) == [answers EXCEPT ![key].at = clock]

(* What a lookup leaves: an expired entry is deleted. *)
AfterHit(a, key) == answers

(* get_or_compute, first half, under the lock. *)
Lookup(a) ==
  /\ job[a].pc = "lookup"
  /\ LET key == KeyOf(a)
         held == key \in DOMAIN answers
         fresh == held /\ clock - answers[key].at < AnswerTtl
     IN  \/ /\ fresh
            /\ job' = [job EXCEPT ![a].pc = "synthesize",
                         ![a].answer = answers[key].answer,
                         ![a].age = clock - answers[key].made]
            /\ answers' = AfterHit(a, key)
         \/ /\ ~fresh
            /\ GoOn(a, "call")
            /\ answers' = [k \in DOMAIN answers \ {key} |-> answers[k]]
  /\ UNCHANGED <<setup, market, clock, history, memory, cost, begun>>

(* How a provider call can end: a usable reply, a reply nobody can read (paid
   for all the same), or an exception.  Without "outage" all calls succeed. *)
Endings ==
  {"reply"} \cup UNION {{"unreadable", "error"} : f \in setup \cap {"outage"}}

(* Tries the rotation counts before it returns: it stops at the first model
   with a JSON object, and has been through all of them when it raises. *)
RotationTries(provider, ending) ==
  IF provider # "openrouter" THEN {0}
  ELSE IF ending = "error" THEN {Models}
  ELSE 1..Models

Bill(provider, ending) == IF provider = "anthropic" /\ ending # "error" THEN 1 ELSE 0

(* Whether another call follows that many failed ones. *)
NextCall(kind, calls) ==
  calls < Len(ChainOf(kind))

(* One provider call of an analysis or of the setup creator, to its end. *)
Call(a) ==
  /\ a # "advice" /\ job[a].pc = "call"
  /\ NextCall(a, job[a].calls)
  /\ \E ending \in Endings :
     LET provider == ChainOf(a)[job[a].calls + 1] IN
     /\ provider = "openrouter" /\ Models = 0 => ending = "error"
     /\ cost' = [cost EXCEPT !.billed = @ + Bill(provider, ending),
                   !.unread = @ + IF ending = "unreadable"
                                  THEN Bill(provider, ending) ELSE 0]
     /\ \E tries \in RotationTries(provider, ending) :
        job' = [job EXCEPT ![a].calls = @ + 1, ![a].tries = @ + tries,
          ![a].pc = IF ending # "reply" THEN "call"
                    ELSE IF a = "analysis" THEN "track" ELSE "done",
          ![a].seen = Bill(provider, ending),
          ![a].answer = IF ending = "reply"
                        THEN [symbol |-> job[a].symbol, view |-> job[a].view]
                        ELSE NoAnswer,
          ![a].verdict = IF ending = "reply" /\ a = "setup" THEN "setup" ELSE Nothing]
  /\ UNCHANGED <<setup, market, clock, answers, history, memory, begun>>

(* Nothing left to call: the analysis ends in its fallback, the creator in
   no setup. *)
GiveUp(a) ==
  /\ a # "advice" /\ job[a].pc = "call"
  /\ ~NextCall(a, job[a].calls)
  /\ job' = [job EXCEPT ![a].pc = "done",
               ![a].verdict = IF a = "analysis" THEN "fallback" ELSE "no_setup"]
  /\ UNCHANGED <<setup, market, clock, answers, history, memory, cost,
                 begun>>

(* _track_llm_cost reads the day's cost ... *)
TrackReads(a) ==
  /\ job[a].pc = "track"
  /\ job' = [job EXCEPT ![a].pc = "tracked", ![a].seen = @ + cost.tracked]
  /\ UNCHANGED <<setup, market, clock, answers, history, memory, cost,
                 begun>>

TrackedCost(a) == job[a].seen

(* ... and writes the sum back, whatever was written in between. *)
TrackWrites(a) ==
  /\ job[a].pc = "tracked"
  /\ cost' = [cost EXCEPT !.tracked = TrackedCost(a)]
  /\ GoOn(a, "store")
  /\ UNCHANGED <<setup, market, clock, answers, history, memory, begun>>

(* Redis refuses either: the exception leaves the provider's method, so a
   good and paid-for answer counts as a failed call. *)
TrackFails(a) ==
  /\ job[a].pc \in {"track", "tracked"}
  /\ May("redis")
  /\ job' = [job EXCEPT ![a].pc = "call", ![a].answer = NoAnswer]
  /\ UNCHANGED <<setup, market, clock, answers, history, memory, cost,
                 begun>>

(* A full cache drops one of its oldest entries, also when the key it is
   about to write is already there. *)
Evicted ==
  IF Cardinality(DOMAIN answers) < MaxAnswers THEN {}
  ELSE {CHOOSE k \in DOMAIN answers : \A other \in DOMAIN answers :
          answers[k].at <= answers[other].at}

(* get_or_compute, second half, under the lock again. *)
Store(a) ==
  /\ job[a].pc = "store"
  /\ answers' = [k \in (DOMAIN answers \ Evicted) \cup {KeyOf(a)} |->
                   IF k = KeyOf(a) THEN [answer |-> job[a].answer, at |-> clock, made |-> clock]
                   ELSE answers[k]]
  /\ GoOn(a, "synthesize")
  /\ UNCHANGED <<setup, market, clock, history, memory, cost, begun>>

(* Synthesis and the rest of analyze_market; whatever it raises on (a reply
   with fields of the wrong shape) ends in the fallback too. *)
Synthesize(a) ==
  /\ job[a].pc = "synthesize"
  /\ \E verdict \in {"analysis"} \cup {"fallback" : f \in setup \cap {"outage"}} :
       job' = [job EXCEPT ![a].pc = "done", ![a].verdict = verdict]
  /\ UNCHANGED <<setup, market, clock, answers, history, memory, cost,
                 begun>>

(* analyze_edge_case: an unreadable reply counts as REJECT, an exception or a
   missing key as no advice, and then the calculator's own verdict stands. *)
Advice(ending) ==
  CASE ending = "reply" -> {"approve", "reject", "resize"}
    [] ending = "unreadable" -> {"reject"}
    [] ending = "error" -> {"as_computed"}

Advise(a) ==
  /\ a = "advice" /\ job[a].pc = "call"
  /\ \E ending \in IF Keyed("openai") THEN Endings ELSE {"error"} :
     \E verdict \in Advice(ending) :
       job' = [job EXCEPT ![a].pc = "done", ![a].verdict = verdict,
                 ![a].calls = IF Keyed("openai") THEN 1 ELSE 0,
                 ![a].heard = ending]
  /\ UNCHANGED <<setup, market, clock, answers, history, memory, cost, begun>>

(* The reply has left the agent. *)
Done(a) ==
  /\ job[a].pc = "done"
  /\ job' = [job EXCEPT ![a] = IdleJob]
  /\ UNCHANGED <<setup, market, clock, answers, history, memory, cost,
                 begun>>

PriceMoves(s) ==
  /\ May("moves")
  /\ market[s] < MaxMoves
  /\ market' = [market EXCEPT ![s] = @ + 1]
  /\ UNCHANGED <<setup, clock, job, answers, history, memory, cost, begun>>

ClockTicks ==
  /\ May("time")
  /\ clock < MaxClock
  /\ clock' = clock + 1
  /\ UNCHANGED <<setup, market, job, answers, history, memory, cost, begun>>

ChainInit ==
  /\ setup \in ChainPlans
  /\ market = [s \in Symbols |-> 0]
  /\ clock = 0
  /\ job = [a \in ChainAgents |-> IdleJob]
  /\ answers = <<>>
  /\ history = [s \in Symbols |-> [of |-> Nothing, until |-> 0]]
  /\ memory = <<>>
  /\ cost = [tracked |-> 0, billed |-> 0, unread |-> 0]
  /\ begun = 0

Work(a) ==
  \/ HistoryCached(a) \/ HistoryArrives(a) \/ HistoryTimesOut(a)
  \/ Lookup(a) \/ Call(a) \/ GiveUp(a) \/ TrackReads(a) \/ TrackWrites(a)
  \/ Store(a) \/ Synthesize(a) \/ Advise(a) \/ Done(a)

ChainNext ==
  \/ \E a \in ChainAgents :
       \/ \E s \in Symbols : Begin(a, s)
       \/ Work(a)
       \/ TrackFails(a)
  \/ MemoryReplies
  \/ MemoryLost
  \/ \E s \in Symbols : PriceMoves(s)
  \/ ClockTicks

ChainSpec == ChainInit /\ [][ChainNext]_chainVars

(* Each request is a coroutine of the event loop: what it can do next it
   eventually does, and the memory agent's loop handles what it is sent. *)
ChainFairness == WF_chainVars(MemoryReplies) /\ \A a \in ChainAgents : WF_chainVars(Work(a))

ChainFairSpec == ChainSpec /\ ChainFairness

-----------------------------------------------------------------------------
Busy(a) == job[a].pc # "idle"

(* Type invariant. *)
ChainTypeOK ==
  /\ setup \in ChainPlans
  /\ market \in [Symbols -> 0..MaxMoves]
  /\ clock \in 0..MaxClock
  /\ \A a \in ChainAgents : Busy(a) =>
       /\ job[a].symbol \in Symbols
       /\ job[a].view \in 0..MaxMoves
       /\ job[a].trades \in Symbols \cup {Nothing}
       /\ job[a].calls \in 0..7
       /\ job[a].tries \in 0..Models * job[a].calls
  /\ DOMAIN answers \subseteq Symbols \X (0..Bucket(MaxMoves))
  /\ {cost.tracked, cost.billed, cost.unread} \subseteq Nat

(* An answer an analysis goes on with, called for or cached, was given for
   its own symbol and for the candle its context was built from: the key is
   made of what tells them apart (_build_cache_discriminator). *)
AnswerIsOfItsCandle ==
  \A a \in ChainAgents : Busy(a) /\ a = "analysis" /\ job[a].answer # NoAnswer =>
    /\ job[a].answer.symbol = job[a].symbol
    /\ Bucket(job[a].answer.view) = Bucket(job[a].view)

(* A cached answer is never served past its time to live, however often it
   was asked for: a hit does not keep it alive (get_or_compute). *)
ServedIsYoung ==
  \A a \in ChainAgents : Busy(a) => job[a].age < AnswerTtl

(* The cache keeps to its size, an insertion making room when no lookup had
   expired an entry first (get_or_compute, max_cache_size). *)
CacheKeepsItsSize == Cardinality(DOMAIN answers) <= MaxAnswers

(* The day's cost never holds more than the providers billed, and while Redis
   answers it is, between requests, all of it but the replies nobody could
   read: those are paid for and never tracked (_call_claude_analysis parses
   before it tracks). *)
CostIsWhole ==
  /\ cost.tracked + cost.unread <= cost.billed
  /\ "redis" \notin setup /\ ~Busy("analysis")
       => cost.tracked + cost.unread = cost.billed

(* An analysis falls back for want of an answer only after every call of
   its chain: three tries of the first provider and the backups of two of
   them, at most seven calls (_perform_llm_call). *)
FallbackIsLast ==
  \A a \in ChainAgents :
    Busy(a) /\ job[a].verdict = "fallback" /\ job[a].answer = NoAnswer
      => /\ job[a].calls = 3 * Len(FirstChoice) + 2 * Len(Backups)
         /\ job[a].calls <= 7

(* Every request ends with a verdict, whatever the providers, the memory
   agent or the bus do (analyze_market, _call_llm_strategy_creator,
   analyze_edge_case catch and time out). *)
RequestsEnd == \A a \in ChainAgents : Busy(a) ~> ~Busy(a)

\* An answer an agent works with (llm_router.py and the agents' chains) is its
\* own, young enough, paid for, and the rule-based one only when no model is left.
AnswersAreRight ==
    /\ AnswerIsOfItsCandle /\ ServedIsYoung /\ CacheKeepsItsSize /\ CostIsWhole
    /\ FallbackIsLast

=============================================================================
