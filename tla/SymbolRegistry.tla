--------------------------- MODULE SymbolRegistry ---------------------------
(***************************************************************************)
(* How the symbols of crates/marketdata get their workers and their        *)
(* updates: the MarketDataManager of manager.rs, with its two maps under   *)
(* two locks, and for each adapter the wiring task and the forwarder of    *)
(* adapter_wiring.rs. All adapters are wired to one manager.               *)
(*                                                                         *)
(* What a worker does with an update is SymbolWorker's matter. Here it     *)
(* only counts that the worker handles one update at a time and may have   *)
(* to fetch a snapshot after any of them. A symbol is the string that names *)
(* it: two spellings of one market are two symbols, as they are two keys.  *)
(***************************************************************************)
EXTENDS Naturals, Sequences

CONSTANTS
  Symbols,
  Adapters,
  Wanted,      \* the symbols each adapter is wired for
  ReportedAs,  \* the symbol in the updates of a symbol: to_uppercase
  Capacity,    \* of a worker's channel (2048 in the code)
  MaxUpdates   \* bound: updates sent by each adapter

ASSUME RegistryAssumption ==
  /\ Wanted \in [Adapters -> SUBSET Symbols] /\ ReportedAs \in [Symbols -> Symbols]
  /\ Capacity \in Nat \ {0} /\ MaxUpdates \in Nat

\* The worker, and its channel, that the call of adapter a for symbol s makes if
\* it makes one.
Workers == {w \in Adapters \X Symbols : w[2] \in Wanted[w[1]]}
SymbolOf(w) == w[2]

VARIABLES
  senders,         \* symbol_senders: the worker behind each sender in the map
  providers,       \* snapshot_providers: the adapter behind each provider
  senders_lock,    \* who holds the first across an await: a wiring task, or nobody
  providers_lock,  \* who holds the second across an await: a worker, or nobody
  cpc,             \* where the wiring task of each adapter is
  todo,            \* the symbols it still has to register
  sym,             \* the symbols of its current call, at most one
  feed,            \* ws_rx: symbols of the updates that wait for the forwarder
  sending,         \* the worker the forwarder is sending to, if any
  emitted,         \* updates the adapter has sent
  wpc,             \* where each worker is
  queued           \* messages in each worker's channel

maps    == <<senders, providers>>
locks   == <<senders_lock, providers_lock>>
wiring  == <<cpc, todo, sym>>
routing == <<feed, sending, emitted>>
workers == <<wpc, queued>>
vars    == <<maps, locks, wiring, routing, workers>>

Init ==
  /\ senders = <<>> /\ providers = <<>>
  /\ senders_lock = {} /\ providers_lock = {}
  /\ cpc = [a \in Adapters |-> "next"]
  /\ todo = Wanted
  /\ sym = [a \in Adapters |-> {}]
  /\ feed = [a \in Adapters |-> <<>>]
  /\ sending = [a \in Adapters |-> {}]
  /\ emitted = [a \in Adapters |-> 0]
  /\ wpc = [w \in Workers |-> "none"]
  /\ queued = [w \in Workers |-> 0]

\* HashMap::insert: a new entry, or a new value in an old one.
Put(map, s, e) == [t \in DOMAIN map \cup {s} |-> IF t = s THEN e ELSE map[t]]

Goto(a, where) == cpc' = [cpc EXCEPT ![a] = where]

-----------------------------------------------------------------------------
(* The wiring task: ensure_symbol_with_snapshot_provider for each symbol.  *)

\* The next call begins: it takes the lock on the senders and looks the symbol up.
Call(a, s) ==
  /\ cpc[a] = "next" /\ s \in todo[a] /\ senders_lock = {}
  /\ todo' = [todo EXCEPT ![a] = @ \ {s}]
  /\ sym' = [sym EXCEPT ![a] = {s}]

\* A sender exists. The lock is kept while the other one is awaited.
FindSender(a, s) ==
  /\ Call(a, s) /\ s \in DOMAIN senders
  /\ senders_lock' = {a}
  /\ Goto(a, "override")
  /\ UNCHANGED <<maps, providers_lock, routing, workers>>

\* There is none. The lock is released and a channel is created.
MissSender(a, s) ==
  /\ Call(a, s) /\ s \notin DOMAIN senders
  /\ Goto(a, "insert")
  /\ UNCHANGED <<maps, locks, routing, workers>>

PutProvider(a) == \E s \in sym[a] : providers' = Put(providers, s, a)

\* The provider is replaced and the existing sender returned.
Override(a) ==
  /\ cpc[a] = "override" /\ providers_lock = {}
  /\ PutProvider(a)
  /\ senders_lock' = {}
  /\ sym' = [sym EXCEPT ![a] = {}]
  /\ Goto(a, "next")
  /\ UNCHANGED <<senders, providers_lock, todo, routing, workers>>

\* The new sender is inserted, in place of one that came in meanwhile.
Insert(a) ==
  /\ cpc[a] = "insert" /\ senders_lock = {}
  /\ \E s \in sym[a] : senders' = Put(senders, s, <<a, s>>)
  /\ Goto(a, "store")
  /\ UNCHANGED <<providers, locks, todo, sym, routing, workers>>

Store_Skipped(a) ==
  /\ cpc[a] = "store" /\ providers_lock = {}
  /\ Goto(a, "spawn")
  /\ UNCHANGED <<maps, locks, todo, sym, routing, workers>>
Store(a) ==
  /\ cpc[a] = "store" /\ providers_lock = {}
  /\ PutProvider(a)
  /\ Goto(a, "spawn")
  /\ UNCHANGED <<senders, locks, todo, sym, routing, workers>>

\* The worker starts; the caller drops the sender it is given.
Spawn(a) ==
  /\ cpc[a] = "spawn"
  /\ \E s \in sym[a] : wpc' = [wpc EXCEPT ![<<a, s>>] = "fetch"]
  /\ sym' = [sym EXCEPT ![a] = {}]
  /\ Goto(a, "next")
  /\ UNCHANGED <<maps, locks, todo, routing, queued>>

\* Every symbol of the adapter is registered.
AllRegistered_ButOne(a) == \A s, t \in todo[a] : s = t
AllRegistered(a) == todo[a] = {}

\* connect_ws succeeds and the forwarder is spawned, or the wiring fails.
Connect(a) ==
  /\ cpc[a] = "next" /\ AllRegistered(a)
  /\ \E result \in {"connected", "failed"} : Goto(a, result)
  /\ UNCHANGED <<maps, locks, todo, sym, routing, workers>>

Wiring(a) ==
  \/ \E s \in Wanted[a] : FindSender(a, s) \/ MissSender(a, s)
  \/ Override(a) \/ Insert(a) \/ Store(a) \/ Spawn(a) \/ Connect(a)

-----------------------------------------------------------------------------
(* The forwarder of an adapter, one for all of its symbols.                *)

\* The adapter's websocket tasks send an update of some symbol, under the name the
\* adapter gives it.
Emit(a) ==
  /\ cpc[a] = "connected" /\ emitted[a] < MaxUpdates
  /\ \E s \in Wanted[a] : feed' = [feed EXCEPT ![a] = Append(@, ReportedAs[s])]
  /\ emitted' = [emitted EXCEPT ![a] = @ + 1]
  /\ UNCHANGED <<maps, locks, wiring, sending, workers>>

\* get_sender clones the sender of the update's symbol. An update of a symbol
\* without one is dropped.
Route(a) ==
  /\ sending[a] = {} /\ feed[a] # <<>> /\ senders_lock = {}
  /\ sending' = [sending EXCEPT ![a] =
                   {senders[s] : s \in {Head(feed[a])} \cap DOMAIN senders}]
  /\ feed' = [feed EXCEPT ![a] = Tail(@)]
  /\ UNCHANGED <<maps, locks, wiring, emitted, workers>>

\* The channel has room for one more message.
HasRoom_OneMore(w) == queued[w] <= Capacity
HasRoom(w) == queued[w] < Capacity

\* tx.send waits for room in the channel. It does not fail: the sender in hand
\* keeps the worker alive.
Deliver(a) ==
  /\ \E w \in sending[a] :
       /\ HasRoom(w)
       /\ queued' = [queued EXCEPT ![w] = @ + 1]
  /\ sending' = [sending EXCEPT ![a] = {}]
  /\ UNCHANGED <<maps, locks, wiring, feed, emitted, wpc>>

Forwarder(a) == Route(a) \/ Deliver(a)

-----------------------------------------------------------------------------
(* A worker.                                                               *)

WorkerGoto(w, where) == wpc' = [wpc EXCEPT ![w] = where]

\* fetch_snapshot_for, at the start of the worker and when it has to resync: the
\* lock on all providers is held until the exchange has answered.
StartFetch(w) ==
  /\ wpc[w] = "fetch" /\ providers_lock = {}
  /\ IF SymbolOf(w) \in DOMAIN providers
     THEN providers_lock' = {w} /\ WorkerGoto(w, "fetching")
     ELSE UNCHANGED providers_lock /\ WorkerGoto(w, "recv")
  /\ UNCHANGED <<maps, senders_lock, wiring, routing, queued>>

ReleaseProviders_Forgotten == UNCHANGED providers_lock
ReleaseProviders == providers_lock' = {}

\* The answer, a snapshot or an error.
FetchReturns(w) ==
  /\ wpc[w] = "fetching"
  /\ ReleaseProviders
  /\ WorkerGoto(w, "recv")
  /\ UNCHANGED <<maps, senders_lock, wiring, routing, queued>>

\* A message is handled, which may call for a new snapshot.
Handle(w) ==
  /\ wpc[w] = "recv" /\ queued[w] > 0
  /\ queued' = [queued EXCEPT ![w] = @ - 1]
  /\ \E next \in {"recv", "fetch"} : WorkerGoto(w, next)
  /\ UNCHANGED <<maps, locks, wiring, routing>>

\* The sender in the map is that of w.
InMap(w) == SymbolOf(w) \in DOMAIN senders /\ senders[SymbolOf(w)] = w

\* A sender of w exists: in the map, in a forwarder, or in the call that made it
\* (the caller drops the one that is returned).
Referenced_KeptByCaller(w) == TRUE
Referenced(w) ==
  \/ InMap(w)
  \/ \E a \in Adapters : w \in sending[a]
  \/ SymbolOf(w) \in sym[w[1]] /\ cpc[w[1]] \in {"insert", "store", "spawn"}

\* Nothing is left to receive and nobody can send any more.
End(w) ==
  /\ wpc[w] = "recv" /\ queued[w] = 0 /\ ~Referenced(w)
  /\ WorkerGoto(w, "ended")
  /\ UNCHANGED <<maps, locks, wiring, routing, queued>>

Worker(w) == StartFetch(w) \/ FetchReturns(w) \/ Handle(w) \/ End(w)

-----------------------------------------------------------------------------
\* Nothing is left to do: the wiring is over and all updates are handled.
Idle ==
  /\ \A a \in Adapters :
       /\ cpc[a] = "failed" \/ (cpc[a] = "connected" /\ emitted[a] = MaxUpdates)
       /\ feed[a] = <<>> /\ sending[a] = {}
  /\ \A w \in Workers : wpc[w] \in {"none", "ended"} \/ (wpc[w] = "recv" /\ queued[w] = 0)
  /\ UNCHANGED vars

Next ==
  \/ \E a \in Adapters : Wiring(a) \/ Emit(a) \/ Forwarder(a)
  \/ \E w \in Workers : Worker(w)
  \/ Idle

\* Every task is polled, and the exchange answers every request: with a snapshot,
\* an error or a broken connection.
Fairness ==
  /\ \A a \in Adapters : WF_vars(Wiring(a)) /\ WF_vars(Forwarder(a))
  /\ \A w \in Workers : WF_vars(Worker(w))

Spec == Init /\ [][Next]_vars /\ Fairness

-----------------------------------------------------------------------------
Running(w) == wpc[w] \in {"fetch", "fetching", "recv"}

\* Every variable has its type, and a lock has at most the one holder who waits.
TypeOK ==
  /\ DOMAIN senders \subseteq Symbols /\ \A s \in DOMAIN senders : senders[s] \in Workers
  /\ DOMAIN providers \subseteq Symbols /\ \A s \in DOMAIN providers : providers[s] \in Adapters
  /\ \A a \in Adapters : senders_lock = {a} <=> cpc[a] = "override"
  /\ \A w \in Workers : providers_lock = {w} <=> wpc[w] = "fetching"
  /\ todo \in [Adapters -> SUBSET Symbols] /\ sym \in [Adapters -> SUBSET Symbols]
  /\ feed \in [Adapters -> Seq(Symbols)] /\ sending \in [Adapters -> SUBSET Workers]
  /\ emitted \in [Adapters -> 0..MaxUpdates]
  /\ queued \in [Workers -> 0..Capacity]

\* Updates are dropped for their spelling only (adapter_wiring.rs:71): as soon as an
\* adapter may send updates of a symbol, under a name it is wired for, the sender
\* of that name is that of a worker that lives or is about to, even while another
\* adapter registers the same name.
UpdatesFindWorker ==
  \A a \in Adapters : cpc[a] = "connected" =>
    \A s \in Wanted[a] : ReportedAs[s] \in Wanted[a] =>
      ReportedAs[s] \in DOMAIN senders /\ wpc[senders[ReportedAs[s]]] # "ended"

\* adapter_wiring.rs:20, "forwards OrderbookUpdate messages into manager", for the
\* symbols of line 16, ["btcusdt", "ethbtc", "ethusdt"]: every update that
\* waits for the forwarder has a sender it can be forwarded to.
UpdatesRouted ==
  \A a \in Adapters : \A i \in 1..Len(feed[a]) : feed[a][i] \in DOMAIN senders

\* A worker never starts without a provider to ask for its first snapshot, whoever
\* else registers the symbol meanwhile: without one it would sit on its deltas
\* until the buffer overflows.
ProviderBeforeBoot ==
  \A w \in Workers : wpc[w] = "fetch" => SymbolOf(w) \in DOMAIN providers

\* manager.rs:71, "if a worker already exists, the existing sender is returned",
\* and 129, "single writer for orderbook state": a symbol has one worker.
OneWorkerPerSymbol ==
  \A v, w \in Workers : SymbolOf(v) = SymbolOf(w) /\ Running(v) /\ Running(w) => v = w

\* What goes into the pipeline comes out of it: no update waits for ever behind a
\* lock held across a fetch, a full channel or the update of another symbol.
UpdatesDrain ==
  []<>(/\ \A a \in Adapters : feed[a] = <<>> /\ sending[a] = {}
       /\ \A w \in Workers : queued[w] = 0)

\* A worker whose sender was replaced in the map does not stay around: it handles
\* what it was sent and ends.
ReplacedWorkersEnd == []<>(\A w \in Workers : Running(w) => InMap(w))
=============================================================================
