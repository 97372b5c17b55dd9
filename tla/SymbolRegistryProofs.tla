------------------------ MODULE SymbolRegistryProofs ------------------------
(***************************************************************************)
(* Proofs about SymbolRegistry, for any set of adapters wired for any      *)
(* symbols, however spelled: no update that is reported under a wired name *)
(* arrives before the worker of that name, and no worker starts            *)
(* without a provider, however the adapters register their symbols.        *)
(***************************************************************************)
EXTENDS SymbolRegistry, TLAPS

\* The control states.
States ==
  /\ cpc \in [Adapters -> {"next", "override", "insert", "store", "spawn", "connected", "failed"}]
  /\ wpc \in [Workers -> {"none", "fetch", "fetching", "recv", "ended"}]
  /\ \A s \in DOMAIN senders : SymbolOf(senders[s]) = s

\* A symbol waits to be registered, is being registered, or has its sender.
Calls ==
  \A a \in Adapters :
    /\ todo[a] \subseteq Wanted[a] /\ sym[a] \subseteq Wanted[a]
    /\ \A s \in sym[a] : s \notin todo[a] /\ \A t \in sym[a] : s = t
    /\ cpc[a] \in {"next", "connected", "failed"} <=> sym[a] = {}
    /\ cpc[a] = "connected" => todo[a] = {}
    /\ cpc[a] = "spawn" => sym[a] \subseteq DOMAIN providers
    /\ cpc[a] \in {"override", "store", "spawn"} => sym[a] \subseteq DOMAIN senders
    /\ \A s \in Wanted[a] : s \in todo[a] \/ s \in sym[a] \/ s \in DOMAIN senders

\* A worker has not started before its symbol is registered, has a provider once it
\* has, and has not ended while its sender is in the map.
Lives ==
  /\ \A w \in Workers :
       SymbolOf(w) \in todo[w[1]]
         \/ (SymbolOf(w) \in sym[w[1]] /\ cpc[w[1]] \in {"insert", "store", "spawn"})
       => wpc[w] = "none"
  /\ \A w \in Workers : wpc[w] # "none" => SymbolOf(w) \in DOMAIN providers
  /\ \A s \in DOMAIN senders : wpc[senders[s]] # "ended"

RegInv == TypeOK /\ States /\ Calls /\ Lives

\* A worker is a pair.
LEMMA WorkerPair ==
  /\ \A w \in Workers : /\ w[1] \in Adapters /\ w[2] \in Symbols /\ w[2] \in Wanted[w[1]]
                        /\ w = <<w[1], w[2]>>
  /\ \A a \in Adapters : \A s \in Wanted[a] :
       /\ <<a, s>> \in Workers /\ s \in Symbols /\ <<a, s>>[1] = a /\ <<a, s>>[2] = s
BY RegistryAssumption DEF Workers

LEMMA InitReg == Init => RegInv
<1> SUFFICES ASSUME Init PROVE RegInv
  OBVIOUS
<1>1. DOMAIN senders = {} /\ DOMAIN providers = {}
  BY DEF Init
<1>2. TypeOK
  BY <1>1, RegistryAssumption, SMT DEF Init, TypeOK
<1>3. States /\ Calls /\ Lives
  BY <1>1, RegistryAssumption DEF Init, States, Calls, Lives
<1> QED BY <1>2, <1>3 DEF RegInv
\* What is neither lost nor changed when the registration of adapter a goes on.
LEMMA OtherCalls ==
  ASSUME RegInv, NEW a \in Adapters, NEW where, cpc' = [cpc EXCEPT ![a] = where]
  PROVE  /\ cpc'[a] = where
         /\ \A b \in Adapters : b # a => cpc'[b] = cpc[b]
BY DEF RegInv, States

LEMMA CallKeeps ==
  ASSUME RegInv, NEW a \in Adapters, NEW s \in Wanted[a], FindSender(a, s) \/ MissSender(a, s)
  PROVE  RegInv'
<1>1. /\ TypeOK /\ States /\ Calls /\ Lives
      /\ <<a, s>> \in Workers
  BY WorkerPair DEF RegInv
<1>2. PICK where \in {"override", "insert"} :
        /\ cpc[a] = "next" /\ s \in todo[a] /\ senders_lock = {}
        /\ todo' = [todo EXCEPT ![a] = todo[a] \ {s}]
        /\ sym' = [sym EXCEPT ![a] = {s}]
        /\ cpc' = [cpc EXCEPT ![a] = where]
        /\ where = "override" => s \in DOMAIN senders /\ senders_lock' = {a}
        /\ where = "insert" => senders_lock' = senders_lock
        /\ UNCHANGED <<senders, providers, providers_lock, feed, sending, emitted, wpc, queued>>
  BY DEF FindSender, MissSender, Call, Goto, maps, locks, routing, workers
<1>3. cpc'[a] = where /\ \A b \in Adapters : b # a => cpc'[b] = cpc[b]
  BY <1>2, OtherCalls
<1>4. /\ todo'[a] = todo[a] \ {s} /\ sym'[a] = {s}
      /\ \A b \in Adapters : b # a => todo'[b] = todo[b] /\ sym'[b] = sym[b]
  BY <1>1, <1>2 DEF TypeOK
<1>5. \A b \in Adapters : senders_lock' = {b} <=> cpc'[b] = "override"
  BY <1>1, <1>2, <1>3 DEF TypeOK
<1>6. TypeOK'
  <2>1. s \in Symbols
    BY WorkerPair
  <2>2. todo' \in [Adapters -> SUBSET Symbols] /\ sym' \in [Adapters -> SUBSET Symbols]
    BY <1>1, <1>2, <2>1 DEF TypeOK
  <2> QED BY <1>1, <1>2, <1>5, <2>2 DEF TypeOK
<1>7. States'
  BY <1>1, <1>2 DEF States
<1>8. Calls'
  BY <1>1, <1>2, <1>3, <1>4 DEF Calls
<1>9. Lives'
  BY <1>1, <1>2, <1>3, <1>4, WorkerPair DEF Lives, SymbolOf
<1> QED BY <1>6, <1>7, <1>8, <1>9 DEF RegInv

\* The symbol of a call.
LEMMA CallSymbol ==
  ASSUME RegInv, NEW a \in Adapters, cpc[a] \in {"override", "insert", "store", "spawn"}
  PROVE  \E s \in Wanted[a] :
           /\ sym[a] = {s} /\ s \notin todo[a] /\ <<a, s>> \in Workers /\ s \in Symbols
           /\ cpc[a] # "override" => wpc[<<a, s>>] = "none"
           /\ cpc[a] # "insert" => s \in DOMAIN senders
<1>1. Calls /\ Lives
  BY DEF RegInv
<1>2. PICK s \in sym[a] : sym[a] = {s}
  BY <1>1 DEF Calls
<1>3. s \in Wanted[a] /\ s \notin todo[a] /\ (cpc[a] # "insert" => s \in DOMAIN senders)
  BY <1>1, <1>2 DEF Calls
<1>4. cpc[a] # "override" => wpc[<<a, s>>] = "none"
  BY <1>1, <1>2, <1>3, WorkerPair DEF Lives, SymbolOf
<1> QED BY <1>2, <1>3, <1>4, WorkerPair

LEMMA OverrideKeeps == ASSUME RegInv, NEW a \in Adapters, Override(a) PROVE RegInv'
<1>1. TypeOK /\ States /\ Calls /\ Lives /\ cpc[a] = "override"
  BY DEF RegInv, Override
<1>2. PICK s \in Wanted[a] : sym[a] = {s} /\ s \notin todo[a] /\ s \in Symbols /\ s \in DOMAIN senders
  BY <1>1, CallSymbol
<1>3. /\ providers' = Put(providers, s, a) /\ senders_lock' = {}
      /\ sym' = [sym EXCEPT ![a] = {}] /\ cpc' = [cpc EXCEPT ![a] = "next"]
      /\ UNCHANGED <<senders, providers_lock, todo, feed, sending, emitted, wpc, queued>>
  BY <1>2 DEF Override, PutProvider, Goto, routing, workers
<1>4. cpc'[a] = "next" /\ \A b \in Adapters : b # a => cpc'[b] = cpc[b]
  BY <1>3, OtherCalls
<1>5. sym'[a] = {} /\ \A b \in Adapters : b # a => sym'[b] = sym[b]
  BY <1>1, <1>3 DEF TypeOK
<1>6. /\ DOMAIN providers' = DOMAIN providers \cup {s} /\ providers'[s] = a
      /\ \A t \in DOMAIN providers : t # s => providers'[t] = providers[t]
  BY <1>3 DEF Put
<1>7. \A b \in Adapters : senders_lock' = {b} <=> cpc'[b] = "override"
  BY <1>1, <1>3, <1>4 DEF TypeOK
<1>8. TypeOK'
  <2>1. sym' \in [Adapters -> SUBSET Symbols]
    BY <1>1, <1>3 DEF TypeOK
  <2>2. DOMAIN providers' \subseteq Symbols /\ \A t \in DOMAIN providers' : providers'[t] \in Adapters
    BY <1>1, <1>2, <1>6 DEF TypeOK
  <2> QED BY <1>1, <1>3, <1>7, <2>1, <2>2 DEF TypeOK
<1>9. States'
  BY <1>1, <1>3 DEF States
<1>10. Calls'
  BY <1>1, <1>2, <1>3, <1>4, <1>5, <1>6 DEF Calls
<1>11. Lives'
  BY <1>1, <1>3, <1>4, <1>5, <1>6, WorkerPair DEF Lives, SymbolOf
<1> QED BY <1>8, <1>9, <1>10, <1>11 DEF RegInv

LEMMA InsertKeeps == ASSUME RegInv, NEW a \in Adapters, Insert(a) PROVE RegInv'
<1>1. TypeOK /\ States /\ Calls /\ Lives /\ cpc[a] = "insert"
  BY DEF RegInv, Insert
<1>2. PICK s \in Wanted[a] : /\ sym[a] = {s} /\ s \notin todo[a] /\ s \in Symbols
                             /\ <<a, s>> \in Workers /\ wpc[<<a, s>>] = "none"
  BY <1>1, CallSymbol
<1>3. /\ senders' = Put(senders, s, <<a, s>>) /\ cpc' = [cpc EXCEPT ![a] = "store"]
      /\ senders_lock = {}
      /\ UNCHANGED <<providers, senders_lock, providers_lock, todo, sym, feed, sending, emitted,
                     wpc, queued>>
  BY <1>2 DEF Insert, Goto, locks, routing, workers
<1>4. cpc'[a] = "store" /\ \A b \in Adapters : b # a => cpc'[b] = cpc[b]
  BY <1>3, OtherCalls
<1>5. /\ DOMAIN senders' = DOMAIN senders \cup {s} /\ senders'[s] = <<a, s>>
      /\ \A t \in DOMAIN senders : t # s => senders'[t] = senders[t]
  BY <1>3 DEF Put
<1>6. TypeOK'
  <2>1. DOMAIN senders' \subseteq Symbols /\ \A t \in DOMAIN senders' : senders'[t] \in Workers
    BY <1>1, <1>2, <1>5 DEF TypeOK
  <2>2. \A b \in Adapters : senders_lock' = {b} <=> cpc'[b] = "override"
    BY <1>1, <1>3, <1>4 DEF TypeOK
  <2> QED BY <1>1, <1>3, <2>1, <2>2 DEF TypeOK
<1>7. States'
  BY <1>1, <1>3, <1>5 DEF States, SymbolOf
<1>8. Calls'
  BY <1>1, <1>2, <1>3, <1>4, <1>5 DEF Calls
<1>9. Lives'
  BY <1>1, <1>2, <1>3, <1>4, <1>5, WorkerPair DEF Lives, SymbolOf
<1> QED BY <1>6, <1>7, <1>8, <1>9 DEF RegInv

LEMMA StoreKeeps == ASSUME RegInv, NEW a \in Adapters, Store(a) PROVE RegInv'
<1>1. TypeOK /\ States /\ Calls /\ Lives /\ cpc[a] = "store"
  BY DEF RegInv, Store
<1>2. PICK s \in Wanted[a] : sym[a] = {s} /\ s \in Symbols
  BY <1>1, CallSymbol
<1>3. /\ providers' = Put(providers, s, a) /\ cpc' = [cpc EXCEPT ![a] = "spawn"]
      /\ UNCHANGED <<senders, senders_lock, providers_lock, todo, sym, feed, sending, emitted,
                     wpc, queued>>
  BY <1>2 DEF Store, PutProvider, Goto, locks, routing, workers
<1>4. cpc'[a] = "spawn" /\ \A b \in Adapters : b # a => cpc'[b] = cpc[b]
  BY <1>3, OtherCalls
<1>5. /\ DOMAIN providers' = DOMAIN providers \cup {s} /\ providers'[s] = a
      /\ \A t \in DOMAIN providers : t # s => providers'[t] = providers[t]
  BY <1>3 DEF Put
<1>6. TypeOK'
  <2>1. DOMAIN providers' \subseteq Symbols /\ \A t \in DOMAIN providers' : providers'[t] \in Adapters
    BY <1>1, <1>2, <1>5 DEF TypeOK
  <2>2. \A b \in Adapters : senders_lock' = {b} <=> cpc'[b] = "override"
    BY <1>1, <1>3, <1>4 DEF TypeOK
  <2> QED BY <1>1, <1>3, <2>1, <2>2 DEF TypeOK
<1>7. States'
  BY <1>1, <1>3 DEF States
<1>8. Calls'
  BY <1>1, <1>2, <1>3, <1>4, <1>5 DEF Calls
<1>9. Lives'
  BY <1>1, <1>3, <1>4, <1>5, WorkerPair DEF Lives, SymbolOf
<1> QED BY <1>6, <1>7, <1>8, <1>9 DEF RegInv

LEMMA SpawnKeeps == ASSUME RegInv, NEW a \in Adapters, Spawn(a) PROVE RegInv'
<1>1. TypeOK /\ States /\ Calls /\ Lives /\ cpc[a] = "spawn"
  BY DEF RegInv, Spawn
<1>2. PICK s \in Wanted[a] : /\ sym[a] = {s} /\ s \notin todo[a] /\ s \in DOMAIN senders
                             /\ <<a, s>> \in Workers /\ wpc[<<a, s>>] = "none"
  BY <1>1, CallSymbol
<1>3. /\ wpc' = [wpc EXCEPT ![<<a, s>>] = "fetch"] /\ cpc' = [cpc EXCEPT ![a] = "next"]
      /\ sym' = [sym EXCEPT ![a] = {}]
      /\ UNCHANGED <<senders, providers, senders_lock, providers_lock, todo, feed, sending, emitted,
                     queued>>
  BY <1>2 DEF Spawn, Goto, maps, locks, routing
<1>4. cpc'[a] = "next" /\ \A b \in Adapters : b # a => cpc'[b] = cpc[b]
  BY <1>3, OtherCalls
<1>5. sym'[a] = {} /\ \A b \in Adapters : b # a => sym'[b] = sym[b]
  BY <1>1, <1>3 DEF TypeOK
<1>6. \A w \in Workers : wpc'[w] = IF w = <<a, s>> THEN "fetch" ELSE wpc[w]
  BY <1>1, <1>3 DEF States
<1>7. s \in DOMAIN providers
  BY <1>1, <1>2 DEF Calls
<1>8. TypeOK'
  <2>1. sym' \in [Adapters -> SUBSET Symbols]
    BY <1>1, <1>3 DEF TypeOK
  <2>2. \A b \in Adapters : senders_lock' = {b} <=> cpc'[b] = "override"
    BY <1>1, <1>3, <1>4 DEF TypeOK
  <2>3. ASSUME NEW w \in Workers PROVE providers_lock' = {w} <=> wpc'[w] = "fetching"
    <3>1. providers_lock = {w} <=> wpc[w] = "fetching"
      BY <1>1 DEF TypeOK
    <3>2. w = <<a, s>> => wpc[w] = "none" /\ wpc'[w] = "fetch"
      BY <1>2, <1>6
    <3>3. w # <<a, s>> => wpc'[w] = wpc[w]
      BY <1>6
    <3> QED BY <1>3, <3>1, <3>2, <3>3
  <2> QED BY <1>1, <1>3, <2>1, <2>2, <2>3 DEF TypeOK
<1>9. States'
  BY <1>1, <1>3 DEF States
<1>10. Calls'
  BY <1>1, <1>2, <1>3, <1>4, <1>5 DEF Calls
<1>11. Lives'
  <2>1. \A w \in Workers : SymbolOf(w) \in todo'[w[1]] => wpc'[w] = "none"
    BY <1>1, <1>2, <1>3, <1>6, WorkerPair DEF Lives, SymbolOf
  <2>2. \A w \in Workers :
          SymbolOf(w) \in sym'[w[1]] /\ cpc'[w[1]] \in {"insert", "store", "spawn"} => wpc'[w] = "none"
    BY <1>1, <1>2, <1>3, <1>4, <1>5, <1>6, WorkerPair DEF Lives, SymbolOf
  <2>3. \A w \in Workers : wpc'[w] # "none" => SymbolOf(w) \in DOMAIN providers
    BY <1>1, <1>6, <1>7, WorkerPair DEF Lives, SymbolOf
  <2>4. \A t \in DOMAIN senders : wpc'[senders[t]] # "ended"
    BY <1>1, <1>6 DEF Lives, TypeOK
  <2> QED BY <1>3, <2>1, <2>2, <2>3, <2>4 DEF Lives
<1> QED BY <1>8, <1>9, <1>10, <1>11 DEF RegInv

LEMMA ConnectKeeps == ASSUME RegInv, NEW a \in Adapters, Connect(a) PROVE RegInv'
<1>1. TypeOK /\ States /\ Calls /\ Lives /\ cpc[a] = "next" /\ todo[a] = {}
  BY DEF RegInv, Connect, AllRegistered
<1>2. PICK result \in {"connected", "failed"} : cpc' = [cpc EXCEPT ![a] = result]
  BY DEF Connect, Goto
<1>3. UNCHANGED <<senders, providers, senders_lock, providers_lock, todo, sym, feed, sending, emitted,
                  wpc, queued>>
  BY DEF Connect, maps, locks, routing, workers
<1>4. cpc'[a] = result /\ \A b \in Adapters : b # a => cpc'[b] = cpc[b]
  BY <1>2, OtherCalls
<1>5. TypeOK'
  <2>1. \A b \in Adapters : senders_lock' = {b} <=> cpc'[b] = "override"
    BY <1>1, <1>3, <1>4 DEF TypeOK
  <2> QED BY <1>1, <1>3, <2>1 DEF TypeOK
<1>6. States'
  BY <1>1, <1>2, <1>3 DEF States
<1>7. Calls'
  BY <1>1, <1>3, <1>4 DEF Calls
<1>8. Lives'
  BY <1>1, <1>3, <1>4, WorkerPair DEF Lives, SymbolOf
<1> QED BY <1>5, <1>6, <1>7, <1>8 DEF RegInv

-----------------------------------------------------------------------------
(* The forwarders and the workers. *)

\* What no wiring task does.
LEMMA ElsewhereKeeps ==
  ASSUME RegInv, UNCHANGED <<senders, providers, senders_lock, cpc, todo, sym>>, TypeOK',
         wpc' \in [Workers -> {"none", "fetch", "fetching", "recv", "ended"}],
         \A w \in Workers :
           \/ wpc'[w] = wpc[w]
           \/ wpc[w] # "none" /\ (wpc'[w] = "ended" => ~InMap(w))
  PROVE  RegInv'
<1>1. TypeOK /\ States /\ Calls /\ Lives
  BY DEF RegInv
<1>2. States' /\ Calls'
  BY <1>1 DEF States, Calls
<1>3. \A s \in DOMAIN senders : senders[s] \in Workers /\ InMap(senders[s])
  BY <1>1 DEF TypeOK, States, InMap
<1>4. \A w \in Workers : wpc[w] = "none" => wpc'[w] = "none"
  OBVIOUS
<1>5. \A w \in Workers : wpc'[w] # "none" => wpc[w] # "none"
  BY <1>4
<1>6. Lives'
  BY <1>1, <1>3, <1>4, <1>5 DEF Lives
<1> QED BY <1>2, <1>6 DEF RegInv

LEMMA RoutingKeeps ==
  ASSUME RegInv, NEW a \in Adapters, Emit(a) \/ Forwarder(a) PROVE RegInv'
<1>1. TypeOK /\ States
  BY DEF RegInv
<1>2. UNCHANGED <<senders, providers, senders_lock, providers_lock, cpc, todo, sym, wpc>>
  BY DEF Emit, Forwarder, Route, Deliver, maps, locks, wiring, workers
<1>3. CASE Emit(a)
  <2>1. feed' \in [Adapters -> Seq(Symbols)]
    <3>1. PICK s \in Symbols : feed' = [feed EXCEPT ![a] = Append(feed[a], ReportedAs[s])]
      BY <1>3, WorkerPair DEF Emit
    <3>2. ReportedAs[s] \in Symbols /\ feed[a] \in Seq(Symbols)
      BY <1>1, RegistryAssumption DEF TypeOK
    <3>3. Append(feed[a], ReportedAs[s]) \in Seq(Symbols)
      BY <3>2
    <3> QED BY <1>1, <3>1, <3>3 DEF TypeOK
  <2>2. emitted' \in [Adapters -> 0..MaxUpdates]
    <3>1. emitted[a] \in 0..MaxUpdates /\ emitted[a] < MaxUpdates
      BY <1>1, <1>3 DEF TypeOK, Emit
    <3>2. emitted[a] + 1 \in 0..MaxUpdates
      BY <3>1, RegistryAssumption, SMT
    <3> QED BY <1>1, <1>3, <3>2 DEF TypeOK, Emit
  <2>3. UNCHANGED <<sending, queued>>
    BY <1>3 DEF Emit, workers
  <2> QED BY <1>1, <1>2, <2>1, <2>2, <2>3, ElsewhereKeeps DEF TypeOK, States
<1>4. CASE Route(a)
  <2>1. feed[a] \in Seq(Symbols) /\ feed[a] # <<>> /\ feed' = [feed EXCEPT ![a] = Tail(feed[a])]
    BY <1>1, <1>4 DEF Route, TypeOK
  <2>2. Tail(feed[a]) \in Seq(Symbols)
    BY <2>1
  <2>3. feed' \in [Adapters -> Seq(Symbols)]
    BY <1>1, <2>1, <2>2 DEF TypeOK
  <2>4. sending' \in [Adapters -> SUBSET Workers]
    <3>1. {senders[s] : s \in {Head(feed[a])} \cap DOMAIN senders} \subseteq Workers
      BY <1>1 DEF TypeOK
    <3> QED BY <1>1, <1>4, <3>1 DEF Route, TypeOK
  <2>5. UNCHANGED <<emitted, queued>>
    BY <1>4 DEF Route, workers
  <2> QED BY <1>1, <1>2, <2>3, <2>4, <2>5, ElsewhereKeeps DEF TypeOK, States
<1>5. CASE Deliver(a)
  <2>1. sending' \in [Adapters -> SUBSET Workers]
    BY <1>1, <1>5 DEF Deliver, TypeOK
  <2>2. queued' \in [Workers -> 0..Capacity]
    <3>1. PICK w \in sending[a] : queued[w] < Capacity /\ queued' = [queued EXCEPT ![w] = queued[w] + 1]
      BY <1>5 DEF Deliver, HasRoom
    <3>2. w \in Workers /\ queued[w] \in 0..Capacity
      BY <1>1, <3>1 DEF TypeOK
    <3>3. queued[w] + 1 \in 0..Capacity
      BY <3>1, <3>2, RegistryAssumption, SMT
    <3> QED BY <1>1, <3>1, <3>2, <3>3 DEF TypeOK
  <2>3. UNCHANGED <<emitted, feed>>
    BY <1>5 DEF Deliver
  <2> QED BY <1>1, <1>2, <2>1, <2>2, <2>3, ElsewhereKeeps DEF TypeOK, States
<1> QED BY <1>3, <1>4, <1>5 DEF Forwarder

LEMMA WorkerKeeps == ASSUME RegInv, NEW w \in Workers, Worker(w) PROVE RegInv'
<1>1. TypeOK /\ States
  BY DEF RegInv
<1>2. /\ UNCHANGED <<senders, providers, senders_lock, cpc, todo, sym, feed, sending, emitted>>
      /\ wpc[w] \in {"fetch", "fetching", "recv"}
  BY DEF Worker, StartFetch, FetchReturns, Handle, End, maps, locks, wiring, routing
<1>3. PICK to \in {"fetch", "fetching", "recv", "ended"} : wpc' = [wpc EXCEPT ![w] = to]
  BY DEF Worker, StartFetch, FetchReturns, Handle, End, WorkerGoto
<1>4. \A v \in Workers : wpc'[v] = IF v = w THEN to ELSE wpc[v]
  BY <1>1, <1>3 DEF States
<1>5. to = "ended" => ~InMap(w)
  <2>1. wpc'[w] = to
    BY <1>4
  <2>2. wpc'[w] = "ended" => End(w)
    BY <1>1 DEF Worker, StartFetch, FetchReturns, Handle, WorkerGoto, States
  <2> QED BY <2>1, <2>2 DEF End, Referenced
<1>6. queued' \in [Workers -> 0..Capacity]
  <2>1. queued' = queued \/ (queued[w] > 0 /\ queued' = [queued EXCEPT ![w] = queued[w] - 1])
    BY DEF Worker, StartFetch, FetchReturns, Handle, End
  <2>2. queued[w] \in 0..Capacity /\ queued \in [Workers -> 0..Capacity]
    BY <1>1 DEF TypeOK
  <2>3. queued[w] > 0 => queued[w] - 1 \in 0..Capacity
    BY <2>2, RegistryAssumption, SMT
  <2> QED BY <2>1, <2>2, <2>3
<1>7. ASSUME NEW v \in Workers PROVE providers_lock' = {v} <=> wpc'[v] = "fetching"
  <2>1. providers_lock = {v} <=> wpc[v] = "fetching"
    BY <1>1 DEF TypeOK
  <2>2. providers_lock = {w} <=> wpc[w] = "fetching"
    BY <1>1 DEF TypeOK
  <2>3. \/ wpc[w] = "fetch" /\ to = "fetching" /\ providers_lock = {} /\ providers_lock' = {w}
        \/ wpc[w] # "fetching" /\ to # "fetching" /\ providers_lock' = providers_lock
        \/ wpc[w] = "fetching" /\ to = "recv" /\ providers_lock' = {}
    <3>1. wpc'[w] = to
      BY <1>4
    <3>2. ASSUME NEW x, wpc' = [wpc EXCEPT ![w] = x] PROVE x = to
      BY <1>1, <3>1, <3>2 DEF States
    <3> QED BY <1>2, <3>2 DEF Worker, StartFetch, FetchReturns, ReleaseProviders, Handle, End,
               WorkerGoto, locks
  <2> QED BY <1>4, <2>1, <2>2, <2>3
<1>8. TypeOK'
  BY <1>1, <1>2, <1>6, <1>7 DEF TypeOK
<1>9. wpc' \in [Workers -> {"none", "fetch", "fetching", "recv", "ended"}]
  BY <1>1, <1>3 DEF States
<1> QED BY <1>2, <1>4, <1>5, <1>8, <1>9, ElsewhereKeeps

-----------------------------------------------------------------------------
\* No step leaves the invariant.
LEMMA RegStep == RegInv /\ [Next]_vars => RegInv'
<1> SUFFICES ASSUME RegInv, [Next]_vars PROVE RegInv'
  OBVIOUS
<1>1. ASSUME NEW a \in Adapters, Wiring(a) PROVE RegInv'
  BY <1>1, CallKeeps, OverrideKeeps, InsertKeeps, StoreKeeps, SpawnKeeps, ConnectKeeps DEF Wiring
<1>2. CASE UNCHANGED vars
  BY <1>2 DEF vars, maps, locks, wiring, routing, workers, RegInv, TypeOK, States, Calls, Lives
<1> QED BY <1>1, <1>2, RoutingKeeps, WorkerKeeps DEF Next, Idle

THEOREM RegInvariant == Spec => []RegInv
BY InitReg, RegStep, PTL DEF Spec

\* Every variable keeps its type, and each lock has one holder.
THEOREM TypeCorrect == Spec => []TypeOK
<1>1. RegInv => TypeOK
  BY DEF RegInv
<1> QED BY <1>1, RegInvariant, PTL

\* adapter_wiring.rs:29-84 and manager.rs:73-106: from its first update on, an adapter
\* finds for each symbol whose reported name it is wired for the sender of a
\* worker that has not ended, however many adapters register that name
\* meanwhile. Nothing is claimed of other spellings: their updates may be dropped.
THEOREM UpdatesAlwaysFindWorker == Spec => []UpdatesFindWorker
<1>1. RegInv => UpdatesFindWorker
  BY DEF RegInv, Calls, Lives, UpdatesFindWorker
<1> QED BY <1>1, RegInvariant, PTL

\* manager.rs:88-101: a worker that is to fetch its first snapshot has a provider.
THEOREM ProviderAlwaysBeforeBoot == Spec => []ProviderBeforeBoot
<1>1. RegInv => ProviderBeforeBoot
  BY DEF RegInv, Lives, ProviderBeforeBoot
<1> QED BY <1>1, RegInvariant, PTL
=============================================================================
