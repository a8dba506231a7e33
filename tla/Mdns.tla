-------------------------------- MODULE Mdns --------------------------------
(***************************************************************************)
(* LAN discovery (mdns.rs) and its responder (mdns_responder.rs): the relay *)
(* access point finds its pinned daemon on the LAN and advertises itself    *)
(* with the daemon's identity; a leaf behind it asks for FIPS services and  *)
(* takes the first advert that passes its filter.                           *)
(*                                                                         *)
(* A query is a sequence of cells: the labels of a name, a pointer to an     *)
(* earlier cell, the end of a name, and the type that follows a name.  A     *)
(* response is the sequence of its records; an npub is the key it decodes    *)
(* to, none when it does not decode.                                         *)
(***************************************************************************)
EXTENDS Naturals, Sequences, FiniteSets

CONSTANTS
    Pinned,     \* the key the relay looks for
    Filters,    \* filters the leaf may run with
    Lan,        \* packets the responders on the LAN answer with
    Asked,      \* queries that reach the relay besides the leaf's
    Attempts,   \* DISCOVERY_ATTEMPTS
    Slices,     \* receive timeouts in DISCOVERY_WINDOW_MS
    ScopeMax,   \* MAX_SCOPE_LEN
    MaxHops,    \* pointers name_is follows
    MaxAir      \* bound on packets in flight to one discoverer

ASSUME MdAssumption ==
    /\ Attempts \in Nat \ {0} /\ Slices \in Nat \ {0}
    /\ ScopeMax \in Nat /\ MaxHops \in Nat /\ MaxAir \in Nat

VARIABLES
    search,    \* per discoverer: attempts left, slices left in the window, phase, result
    filter,    \* the leaf's
    upstream,  \* the relay's DiscoveredFips
    air,       \* per discoverer: the responses on their way to it
    heard      \* the query the relay read last, if it was not the leaf's, and its verdict

mdVars == <<search, filter, upstream, air, heard>>

Seeker == {"relay", "leaf"}

----------------------------------------------------------------------------
(* The responder reads a query *)

Label(l) == [k |-> "label", v |-> l]
Pointer(to) == [k |-> "ptr", v |-> to]
End == [k |-> "end", v |-> 0]
Asks(type) == [k |-> "type", v |-> type]

ServiceName == <<"_fips", "_udp", "local">>
PtrQuery == [reply |-> FALSE, count |-> 1,
             cells |-> <<Label("_fips"), Label("_udp"), Label("local"), End, Asks("PTR")>>]

\* skip_name: the cells past a name, none when the packet ends in it.
SkipName(cells, off) ==
    LET ends == {i \in off..Len(cells) : cells[i].k \in {"end", "ptr"}}
    IN  IF ends = {} THEN {} ELSE {1 + CHOOSE i \in ends : \A j \in ends : i <= j}

\* A plausible slip: a pointer ends the comparison.
NameIsNoPointers(cells, off, want) ==
    \E n \in off..Len(cells) :
        /\ cells[n].k \in {"end", "ptr"} /\ n - off = Len(want)
        /\ \A i \in 1..Len(want) : cells[off + i - 1] = Label(want[i])

\* name_is: walk the labels from off, following at most MaxHops pointers.
NameIs(cells, off, want) ==
    LET walk[at \in 0..(Len(cells) + 1), idx \in 0..Len(want), hops \in 0..MaxHops] ==
            IF at \notin 1..Len(cells) THEN FALSE
            ELSE CASE cells[at].k = "end" -> idx = Len(want)
                   [] cells[at].k = "ptr" -> hops < MaxHops /\ walk[cells[at].v, idx, hops + 1]
                   [] cells[at].k = "label" ->
                        idx < Len(want) /\ cells[at].v = want[idx + 1] /\ walk[at + 1, idx + 1, hops]
                   [] OTHER -> FALSE
    IN  walk[off, 0, 0]

OurName(cells, off, type) ==
    \/ NameIs(cells, off, ServiceName) /\ type \in {"PTR", "ANY"}
    \/ NameIs(cells, off, <<"relay">> \o ServiceName) /\ type \in {"SRV", "TXT", "ANY"}
    \/ NameIs(cells, off, <<"host", "local">>) /\ type \in {"A", "ANY"}

\* parse_fips_query: every question is read, even after a hit, and one that is cut
\* off spoils the packet.
ParseFipsQuery(q) ==
    LET read[n \in 0..q.count, off \in 1..(Len(q.cells) + 1)] ==
            IF n = 0 THEN [ok |-> TRUE, hit |-> FALSE]
            ELSE LET past == SkipName(q.cells, off)
                     at == CHOOSE i \in past : TRUE
                 IN  IF past = {} \/ at > Len(q.cells) THEN [ok |-> FALSE, hit |-> FALSE]
                     ELSE LET rest == read[n - 1, at + 1]
                          IN  [rest EXCEPT !.hit = @ \/ OurName(q.cells, off, q.cells[at].v)]
        all == read[q.count, 1]
    IN  ~q.reply /\ all.ok /\ all.hit

----------------------------------------------------------------------------
(* Responses *)

Record(type, len, val) == [type |-> type, len |-> len, val |-> val]
Response(records) == [reply |-> TRUE, cut |-> FALSE, records |-> records]

ApAddr == "ap"
RelayPort == "relay_port"

\* build_fips_response: PTR, then SRV, TXT and A as additionals.
BuildFipsResponse(npub, scope) ==
    Response(<<Record("PTR", 30, 0), Record("SRV", 20, RelayPort),
               Record("TXT", 80, [npub |-> {npub}, scope |-> scope, v |-> {"1"}]),
               Record("A", 4, ApAddr)>>)

\* The value of the first record of a kind, if there is one; npub, scope and v are
\* each the first that some TXT has.
FirstVal(hits) == IF hits = <<>> THEN {} ELSE {Head(hits).val}

FirstTxt(records, key) ==
    LET has(r) == r.type = "TXT" /\ r.val[key] # {}
    IN  UNION {t[key] : t \in FirstVal(SelectSeq(records, has))}

IsSrv(r) == r.type = "SRV" /\ r.len >= 6
IsA(r) == r.type = "A" /\ r.len = 4

\* parse_fips_response: none unless port, address and npub are all there.
ParseFipsResponse(p) ==
    LET port == FirstVal(SelectSeq(p.records, IsSrv))
        addr == FirstVal(SelectSeq(p.records, IsA))
        npub == FirstTxt(p.records, "npub")
    IN  IF ~p.reply \/ p.cut \/ port = {} \/ addr = {} \/ npub = {} THEN {}
        ELSE {[addr |-> a, port |-> o, npub |-> n, scope |-> FirstTxt(p.records, "scope"),
               version |-> FirstTxt(p.records, "v")] : a \in addr, o \in port, n \in npub}

\* advert_matches
AdvertMatches(advert, key, f) ==
    IF f.kind = "pinned" THEN key = f.key
    ELSE /\ advert.version \in {{}, {"1"}}
         /\ f.scope = {} \/ advert.scope = f.scope

FilterOf(s) == IF s = "relay" THEN [kind |-> "pinned", key |-> Pinned] ELSE filter

\* What discover_fips_advert makes of a packet; a scope that is too long is dropped.
Discovered(s, p) ==
    {[addr |-> a.addr, port |-> a.port, key |-> a.npub,
      scope |-> {x \in a.scope : x.size <= ScopeMax}] :
        a \in {b \in ParseFipsResponse(p) :
                 b.npub # "undecodable" /\ AdvertMatches(b, b.npub, FilterOf(s))}}

----------------------------------------------------------------------------
(* Discovery *)

Idle == [left |-> 0, slices |-> 0, phase |-> "idle", result |-> {}]

\* discover_fips_advert opens a socket of its own.
StartSearch(s) ==
    /\ search[s].phase = "idle"
    /\ search' = [search EXCEPT ![s] = [Idle EXCEPT !.left = Attempts, !.phase = "query"]]
    /\ heard' = {}
    /\ UNCHANGED <<filter, upstream, air>>

\* The result is taken and the socket closed.  A relay that found nothing falls back
\* to the VPS, with the pinned key and no scope, if its name resolves.
EndSearch(s) ==
    /\ search[s].phase = "done"
    /\ search' = [search EXCEPT ![s] = Idle]
    /\ air' = [air EXCEPT ![s] = {}]
    /\ upstream' \in CASE s = "leaf" -> {upstream}
                        [] s = "relay" /\ search[s].result # {} -> {search[s].result}
                        [] OTHER -> {upstream, {[addr |-> "vps", port |-> "vps_port",
                                                key |-> Pinned, scope |-> {}]}}
    /\ UNCHANGED <<filter, heard>>

\* mdns_task on a query: the packet it sends, if any.
Answers(q) ==
    IF ParseFipsQuery(q) THEN {BuildFipsResponse(u.key, u.scope) : u \in upstream} ELSE {}

\* The query goes out.  On the LAN any responder may answer, or none; on the relay's
\* side the relay answers, and the answer may be lost.
SendQuery(s) ==
    /\ search[s].phase = "query" /\ search[s].left > 0
    /\ search' = [search EXCEPT ![s].left = @ - 1, ![s].slices = Slices, ![s].phase = "window"]
    /\ IF s = "relay"
       THEN \E new \in SUBSET Lan :
                 /\ Cardinality(new) <= MaxAir
                 /\ air' = [air EXCEPT ![s] = new]
       ELSE \E new \in SUBSET Answers(PtrQuery) : air' = [air EXCEPT ![s] = @ \cup new]
    /\ UNCHANGED <<filter, upstream, heard>>

\* The query could not be sent: the attempt is spent.
SendFails(s) ==
    /\ search[s].phase = "query" /\ search[s].left > 0
    /\ search' = [search EXCEPT ![s].left = @ - 1]
    /\ UNCHANGED <<filter, upstream, air, heard>>

\* A packet arrives within the window; the first one that passes ends the search.
ReceivePacket(s) ==
    /\ search[s].phase = "window"
    /\ \E p \in air[s] :
         /\ air' = [air EXCEPT ![s] = @ \ {p}]
         /\ LET d == Discovered(s, p)
            IN  search' = [search EXCEPT ![s].result = d,
                             ![s].phase = IF d # {} THEN "done" ELSE @]
    /\ UNCHANGED <<filter, upstream, heard>>

\* A receive times out; when the window is over the next query goes out.
ReceiveTimeout(s) ==
    /\ search[s].phase = "window"
    /\ search' = [search EXCEPT ![s].slices = @ - 1,
                     ![s].phase = IF search[s].slices > 1 THEN @ ELSE "query"]
    /\ UNCHANGED <<filter, upstream, air, heard>>

GiveUp(s) ==
    /\ search[s].phase = "query" /\ search[s].left = 0
    /\ search' = [search EXCEPT ![s].phase = "done"]
    /\ UNCHANGED <<filter, upstream, air, heard>>

\* Somebody else on the relay's side asks; the verdict depends on nothing else, so
\* only the case that nobody searches is looked at.
HearQuery ==
    /\ \A s \in Seeker : search[s] = Idle
    /\ \E q \in Asked \cup {PtrQuery} : heard' = {[query |-> q, hit |-> ParseFipsQuery(q)]}
    /\ UNCHANGED <<search, filter, upstream, air>>

----------------------------------------------------------------------------
MdInit ==
    /\ search = [s \in Seeker |-> Idle]
    /\ filter \in Filters
    /\ upstream = {}
    /\ air = [s \in Seeker |-> {}]
    /\ heard = {}

Running(s) ==
    EndSearch(s) \/ SendQuery(s) \/ SendFails(s) \/ ReceivePacket(s) \/ ReceiveTimeout(s) \/ GiveUp(s)

MdNext == HearQuery \/ \E s \in Seeker : StartSearch(s) \/ Running(s)

MdSpec == MdInit /\ [][MdNext]_mdVars

\* A search that runs goes on; its timers fire.
MdFairness == \A s \in Seeker : WF_mdVars(Running(s))

MdFair == MdSpec /\ MdFairness

----------------------------------------------------------------------------
(* Properties *)

\* The name that cell off spells when all pointers are followed, none on a loop.
Spelled(cells, off) ==
    LET spell[at \in 0..(Len(cells) + 1), fuel \in 0..Len(cells)] ==
            IF at \notin 1..Len(cells) \/ fuel = 0 THEN {}
            ELSE CASE cells[at].k = "end" -> {<<>>}
                   [] cells[at].k = "ptr" -> spell[cells[at].v, fuel - 1]
                   [] cells[at].k = "label" -> {<<cells[at].v>> \o n : n \in spell[at + 1, fuel - 1]}
                   [] OTHER -> {}
    IN  spell[off, Len(cells)]

Starts(cells) == {1} \cup {i + 1 : i \in {j \in 1..(Len(cells) - 1) : cells[j].k = "type"}}
TypeAt(cells, off) == cells[CHOOSE i \in SkipName(cells, off) : TRUE].v

\* The relay answers exactly the complete queries with a question for the service,
\* its instance or its host, whether their names are written out or compressed and
\* wherever the question stands.
AnswersOurNames ==
    \A h \in heard :
        LET q == h.query
            complete == Cardinality({i \in 1..Len(q.cells) : q.cells[i].k = "type"}) = q.count
        IN  h.hit <=>
            /\ ~q.reply /\ complete
            /\ \E off \in Starts(q.cells), n \in {ServiceName, <<"relay">> \o ServiceName, <<"host", "local">>} :
                 /\ Spelled(q.cells, off) = {n}
                 /\ TypeAt(q.cells, off) \in
                      CASE n = ServiceName -> {"PTR", "ANY"}
                        [] Len(n) = 4 -> {"SRV", "TXT", "ANY"}
                        [] Len(n) = 2 -> {"A", "ANY"}

\* What a leaf finds behind the relay is the relay's endpoint with the pinned key of
\* the daemon, and a leaf that asks for a scope gets a daemon that advertised it,
\* through both discoveries and the relay's own advert.
LeafFindsDaemon ==
    \A d \in search["leaf"].result :
        /\ d.addr = ApAddr /\ d.port = RelayPort /\ d.key = Pinned
        /\ filter.kind = "open" /\ filter.scope # {} =>
             /\ d.scope = filter.scope
             /\ \E p \in Lan : \E a \in ParseFipsResponse(p) :
                  a.npub = Pinned /\ a.scope = filter.scope

\* A search always ends, found or not: after three queries that could not be sent or
\* went unanswered the caller falls back to its static target.
SearchEnds == \A s \in Seeker : search[s].phase = "query" ~> search[s].phase = "done"

\* Discovery is right on both ends: the relay answers what it is asked and what the
\* leaf finds is the relay and its daemon.
DiscoveryIsRight == AnswersOurNames /\ LeafFindsDaemon

=============================================================================
