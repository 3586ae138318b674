----------------------------- MODULE ResultStore -----------------------------
(***************************************************************************)
(* Tool results too large for one response: the bounded store that keeps   *)
(* them (src/server/result_store.rs), the pages they are read in           *)
(* (src/server/response_limit.rs) and the two handlers of src/server.rs    *)
(* that use the store, each under its mutex.                               *)
(*                                                                         *)
(* A text is a sequence of characters that differ in their length in UTF-8 *)
(* and in what they cost once escaped into a response.  Offsets and        *)
(* cursors count bytes, as in the code.                                    *)
(***************************************************************************)
EXTENDS Integers, Sequences, FiniteSets, FiniteSetsExt, SequencesExt

CONSTANTS
    Clients,       \* clients, each makes one call and reads its result
    Roots,         \* canonical project roots
    Texts,         \* the structured JSON texts calls may return
    CharLen,       \* len_utf8 of a character
    CharCost,      \* response_cost of a character
    DirectBudget,  \* what a text may cost and still fit one response
    PageBudget,    \* what the fragment of a page may cost
    MaxStored,     \* MAX_STORED_RESULTS
    MaxBytes,      \* max_bytes of the store
    EntryBytes,    \* retained bytes of the identifier and the project root
    Ttl,           \* STORED_RESULT_TTL
    MaxTime,       \* bound on the clock
    MaxRestarts    \* bound on the restarts of the server

(* validate_response_limit: a page has room for any one character. *)
ASSUME StoreAssumption ==
    /\ IsFiniteSet(Clients) /\ MaxStored \in Nat \ {0} /\ Ttl \in Nat \ {0}
    /\ Texts \subseteq Seq(DOMAIN CharLen)
    /\ \A t \in Texts : \A i \in DOMAIN t : /\ CharLen[t[i]] \in Nat \ {0}
                                            /\ CharCost[t[i]] \in 0 .. PageBudget
    /\ {DirectBudget, PageBudget, MaxBytes, EntryBytes, MaxTime, MaxRestarts} \subseteq Nat

VARIABLES
    store,          \* ResultStore.entries, the oldest first, and .retained_bytes
    next_sequence,  \* ResultStore.next_sequence
    process_key,    \* ResultStore.process_key, another one in each process
    now,            \* the clock
    client          \* what each client called, holds and has read so far

vars == <<store, next_sequence, process_key, now, client>>

Bytes(text) == SumFunction([i \in DOMAIN text |-> CharLen[text[i]]])
Cost(text) == SumFunction([i \in DOMAIN text |-> CharCost[text[i]]])
Retained(entries) == SumFunction([i \in DOMAIN entries |-> entries[i].bytes])

EmptyStore == [entries |-> <<>>, retained_bytes |-> 0]

(* A client that has read nothing from the store. *)
Client(pc, root, text, id, at, got) ==
    [pc |-> pc, root |-> root, text |-> text, id |-> id, at |-> at, offset |-> 0, got |-> got]

Idle == Client("idle", "none", <<>>, <<>>, 0, <<>>)

Init ==
    /\ store = EmptyStore
    /\ next_sequence = 0
    /\ process_key = 0
    /\ now = 0
    /\ client = [c \in Clients |-> Idle]

-----------------------------------------------------------------------------
(* Mutant: the total keeps the bytes of what left. *)
EvictKeepingTotal(s, k) ==
    [s EXCEPT !.entries = SubSeq(@, k + 1, Len(@))]

(* evict_oldest, k times *)
Evict(s, k) ==
    [entries |-> SubSeq(s.entries, k + 1, Len(s.entries)),
     retained_bytes |-> s.retained_bytes - Retained(SubSeq(s.entries, 1, k))]

(* expire: the front is evicted until it is young enough. *)
Expire(s, time) ==
    Evict(s, Min({k \in 0 .. Len(s.entries) :
                     k < Len(s.entries) => time - s.entries[k + 1].stored_at < Ttl}))

(* Mutant: identifiers do not tell one server process from another. *)
SequenceOnly == <<0, next_sequence>>

NextId == <<process_key, next_sequence>>

RetainedSize(text) == Bytes(text) + EntryBytes

Full(s, bytes) == Len(s.entries) >= MaxStored \/ s.retained_bytes + bytes > MaxBytes

(* The oldest are evicted until there is room or nothing left. *)
MakeRoom(s, bytes) ==
    Evict(s, Min({k \in 0 .. Len(s.entries) :
                     k < Len(s.entries) => ~Full(Evict(s, k), bytes)}))

Push(s, entry) ==
    [entries |-> Append(s.entries, entry), retained_bytes |-> s.retained_bytes + entry.bytes]

(* insert after expire and next_id: a result that alone exceeds the budget *)
(* is refused and evicts nothing.                                          *)
Insert(s, entry) ==
    IF entry.bytes > MaxBytes THEN s
    ELSE Push(MakeRoom(s, entry.bytes), entry)

(* bound_response: a text that fits is returned as it is, a larger one is  *)
(* stored and replaced by a marker with its identifier.                    *)
CallTool(c) ==
    /\ client[c].pc = "idle"
    /\ \E text \in Texts, root \in Roots :
          LET entry == [id |-> NextId, project_root |-> root, json |-> text,
                        stored_at |-> now, bytes |-> RetainedSize(text)]
          IN  \/ /\ Cost(text) <= DirectBudget
                 /\ client' = [client EXCEPT ![c] =
                        Client("complete", "none", text, <<>>, 0, text)]
                 /\ UNCHANGED <<store, next_sequence>>
              \/ /\ Cost(text) > DirectBudget
                 /\ next_sequence' = next_sequence + 1
                 /\ store' = Insert(Expire(store, now), entry)
                 /\ client' = [client EXCEPT ![c] =
                        IF entry.bytes > MaxBytes
                        THEN Client("refused", "none", <<>>, <<>>, 0, <<>>)
                        ELSE Client("reading", root, text, NextId, now, <<>>)]
    /\ UNCHANGED <<process_key, now>>

-----------------------------------------------------------------------------
(* decode_cursor: a character boundary before the end of the text, as the  *)
(* number of characters before it.                                         *)
Boundaries(text, offset) ==
    {k \in 0 .. (Len(text) - 1) : Bytes(SubSeq(text, 1, k)) = offset}

(* Mutant: a page never uses its budget up. *)
PageEndBelowBudget(text, start) ==
    Max({k \in start .. Len(text) :
            k = start \/ Cost(SubSeq(text, start + 1, k)) < PageBudget})

(* fit_page: the end of the longest page that starts after `start`         *)
(* characters.                                                             *)
PageEnd(text, start) ==
    Max({k \in start .. Len(text) : Cost(SubSeq(text, start + 1, k)) <= PageBudget})

NextCursor(text, end) == Bytes(SubSeq(text, 1, end))

(* What a client knows after it asked for the page at its cursor. *)
WithPage(q, text) ==
    LET starts == Boundaries(text, q.offset)
        start == CHOOSE k \in starts : TRUE
        end == PageEnd(text, start)
    IN  IF starts = {} THEN [q EXCEPT !.pc = "invalid_cursor"]
        ELSE IF end = start THEN [q EXCEPT !.pc = "limit_too_small"]
        ELSE [q EXCEPT !.got = @ \o SubSeq(text, start + 1, end),
                       !.offset = NextCursor(text, end),
                       !.pc = IF end = Len(text) THEN "complete" ELSE @]

(* read_tool_result_page, with the project of the result or another one.   *)
ReadPage(c) ==
    /\ client[c].pc = "reading"
    /\ \E root \in Roots :
          LET live == Expire(store, now)
              found == {e \in Range(live.entries) :
                           e.id = client[c].id /\ e.project_root = root}
          IN  /\ store' = live
              /\ \/ /\ found = {}
                    /\ client' = [client EXCEPT ![c] =
                          IF root = @.root THEN Client("unavailable", "none", <<>>, <<>>, 0, <<>>)
                          ELSE @]
                 \/ \E e \in found :
                       client' = [client EXCEPT ![c] = WithPage(@, e.json)]
    /\ UNCHANGED <<next_sequence, process_key, now>>

Tick ==
    /\ now < MaxTime
    /\ now' = now + 1
    /\ UNCHANGED <<store, next_sequence, process_key, client>>

(* The server stops and a new process starts with an empty store.          *)
Restart ==
    /\ process_key < MaxRestarts
    /\ process_key' = process_key + 1
    /\ store' = EmptyStore
    /\ next_sequence' = 0
    /\ UNCHANGED <<now, client>>

Next ==
    \/ \E c \in Clients : CallTool(c) \/ ReadPage(c)
    \/ Tick
    \/ Restart

(* A client that holds a marker reads on.  This is WF_vars(ReadPage(c)),   *)
(* whose step is enabled exactly while the client is reading.              *)
Fairness ==
    \A c \in Clients : []<>(client[c].pc # "reading") \/ []<><<ReadPage(c)>>_vars

Spec == Init /\ [][Next]_vars /\ Fairness

-----------------------------------------------------------------------------
(* What a client has put together is a prefix of its own result, and the   *)
(* whole of it once the server says complete: no page skips, repeats or    *)
(* splits a character, and no identifier ever names another result, also   *)
(* not after a restart (fit_page, decode_cursor, next_id).                 *)
PagesConcatenate ==
    \A c \in Clients :
        /\ IsPrefix(client[c].got, client[c].text)
        /\ client[c].pc = "complete" => client[c].got = client[c].text

(* A result that a client is reading is lost only to its age, to a restart *)
(* or to a newer result that needs its room: what was stored since and the *)
(* new one do not fit together with it.  So the running total is right     *)
(* through every mix of expiry, eviction and refusal, and no room is lost  *)
(* to results that are gone (insert, expire, evict_oldest).                *)
LostOnlyForAReason ==
    [][\A c \in Clients :
          LET before == {e \in Range(store.entries) : e.id = client[c].id}
              after == {e \in Range(store'.entries) : e.id = client[c].id}
          IN  before # {} /\ after = {} =>
                 \/ now - client[c].at >= Ttl
                 \/ process_key' # process_key
                 \/ \E d \in Clients :
                      /\ client[d].pc = "idle" /\ client'[d].pc = "reading"
                      /\ \E i \in DOMAIN store.entries :
                         LET since == SubSeq(store.entries, i, Len(store.entries))
                         IN /\ store.entries[i].id = client[c].id
                            /\ \/ Len(since) + 1 > MaxStored
                               \/ Retained(since) + RetainedSize(client'[d].text) > MaxBytes]_vars

(* A client that keeps reading ends: with its whole result, or because the *)
(* result is gone.  A cursor that the server issued is accepted as long as *)
(* the result is there, and there is always a page to return.              *)
ReadingEnds ==
    \A c \in Clients :
        client[c].pc = "reading" ~> client[c].pc \in {"complete", "unavailable"}
=============================================================================
