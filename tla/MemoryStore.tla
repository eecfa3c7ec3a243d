---------------------------- MODULE MemoryStore ----------------------------
(****************************************************************************)
(* The durable memory store (internal/memory/sqlite.go) behind the audit    *)
(* rows, the pack cache, facts and plans, and the REST routes that read and *)
(* forget them.  One SQL statement is one action; Get has two, and the      *)
(* others run between them.                                                 *)
(****************************************************************************)
EXTENDS Naturals, Sequences

CONSTANTS
  Callers,    \* namespaces
  Names,      \* the keys of a namespace
  Patterns,   \* what a forget deletes by: "pack_history/", ... or a whole key
  Meant,      \* the names a pattern speaks of: those it begins, or the one it is
  Matches,    \* those LIKE 'pattern%' takes: all it begins, in upper or lower case
  Scopes,     \* the scopes of a forget: sequences of patterns
  MemCalls,   \* operations under way
  MaxPuts,    \* bound: values are numbered from 1, 0 is none
  MaxNow      \* bound: ticks of the clock

ASSUME MemoryAssumption ==
  /\ MaxPuts \in Nat /\ MaxNow \in Nat
  /\ \A p \in Patterns : Meant[p] \subseteq Matches[p] /\ Matches[p] \subseteq Names
  /\ Scopes \subseteq Seq(Patterns)

Keys == Callers \X Names

VARIABLES
  entry,    \* memory_entries: the value under each key, and when it expires (0: never)
  now,
  puts,     \* values written so far
  reader,   \* where each operation is
  kept,     \* history: the entry last put under each key and not forgotten
  crossed   \* history: the keys last put while a Get held an expired entry

memVars == <<entry, now, puts, reader, kept, crossed>>

-----------------------------------------------------------------------------
NoEntry == [value |-> 0, due |-> 0]
AtRest == [at |-> "rest", key |-> CHOOSE k \in Keys : TRUE, seen |-> NoEntry,
           whose |-> {}, left |-> <<>>]

\* isExpired, by the clock of the moment.
Expired(e) == e.due # 0 /\ e.due <= now

MemInit ==
  /\ entry = [k \in Keys |-> NoEntry] /\ kept = entry
  /\ now = 1 /\ puts = 0
  /\ reader = [o \in MemCalls |-> AtRest]
  /\ crossed = {}

Proceed(o, r) == reader' = [reader EXCEPT ![o] = r]

\* An upsert whose conflict clause forgets expires_at.
PutKeepsExpiry(o, k, ttl) ==
  LET e == [value |-> puts + 1, due |-> IF ttl = 0 THEN 0 ELSE now + ttl] IN
  /\ reader[o].at = "rest" /\ puts < MaxPuts
  /\ puts' = puts + 1
  /\ entry' = [entry EXCEPT ![k] = IF entry[k] = NoEntry THEN e ELSE [entry[k] EXCEPT !.value = e.value]]
  /\ kept' = [kept EXCEPT ![k] = e]
  /\ Proceed(o, [AtRest EXCEPT !.at = "done"])
  /\ UNCHANGED <<now, crossed>>

\* An upsert writes value and expiry, or fails and writes nothing.
GetsOver(k) ==
  {o \in MemCalls : reader[o].at \in {"judge", "drop"} /\ reader[o].key = k /\ reader[o].seen.due # 0}
Put(o, k, ttl) ==
  LET e == [value |-> puts + 1, due |-> IF ttl = 0 THEN 0 ELSE now + ttl] IN
  /\ reader[o].at = "rest" /\ puts < MaxPuts
  /\ puts' = puts + 1
  /\ entry' = [entry EXCEPT ![k] = e] /\ kept' = [kept EXCEPT ![k] = e]
  /\ crossed' = IF GetsOver(k) # {} THEN crossed \cup {k} ELSE crossed \ {k}
  /\ Proceed(o, [AtRest EXCEPT !.at = "done"])
  /\ UNCHANGED now

\* Get reads the row, judges it and, when it has expired, deletes by key
\* whatever is there by then.
Get(o, k) ==
  /\ reader[o].at = "rest"
  /\ Proceed(o, [AtRest EXCEPT !.at = IF entry[k] = NoEntry THEN "done" ELSE "judge",
                               !.key = k, !.seen = entry[k]])
  /\ UNCHANGED <<entry, now, puts, kept, crossed>>

Judge(o) ==
  /\ reader[o].at = "judge"
  /\ Proceed(o, [reader[o] EXCEPT !.at = IF Expired(reader[o].seen) THEN "drop" ELSE "done"])
  /\ UNCHANGED <<entry, now, puts, kept, crossed>>

Drop(o) ==
  /\ reader[o].at = "drop"
  /\ \/ entry' = [entry EXCEPT ![reader[o].key] = NoEntry]
     \/ UNCHANGED entry \* the delete fails, and nobody is told
  /\ Proceed(o, [reader[o] EXCEPT !.at = "done", !.seen = NoEntry])
  /\ UNCHANGED <<now, puts, kept, crossed>>

\* List shows what has not expired, and deletes nothing: Routing Memory and
\* the recent audits are read with it.  DeleteExpired is called by nobody.
Shown(n) == {k \in Keys : k[1] = n /\ entry[k] # NoEntry /\ ~Expired(entry[k])}

Delete(o, k) ==
  /\ reader[o].at = "rest"
  /\ entry' = [entry EXCEPT ![k] = NoEntry] /\ kept' = [kept EXCEPT ![k] = NoEntry]
  /\ Proceed(o, [AtRest EXCEPT !.at = "done"])
  /\ UNCHANGED <<now, puts, crossed>>

\* POST /memory/forget deletes pattern after pattern.  (The pack that forgets
\* lists and deletes key by key: so many Deletes.)
Forget(o, n, scope) ==
  /\ reader[o].at = "rest"
  /\ Proceed(o, [AtRest EXCEPT !.at = "forget", !.whose = {n}, !.left = scope])
  /\ UNCHANGED <<entry, now, puts, kept, crossed>>

\* All of the caller's entries whose key the pattern matches; for a whole key,
\* every longer one too.
Without(f, gone) == [k \in Keys |-> IF k \in gone THEN NoEntry ELSE f[k]]
DeletePrefix(o) ==
  LET gone == reader[o].whose \X Matches[Head(reader[o].left)] IN
  /\ reader[o].at = "forget" /\ reader[o].left # <<>>
  /\ entry' = Without(entry, gone) /\ kept' = Without(kept, gone)
  /\ Proceed(o, [reader[o] EXCEPT !.left = Tail(@)])
  /\ UNCHANGED <<now, puts, crossed>>

\* All are gone, or a statement fails and the rest is not forgotten.
Forgotten(o) ==
  /\ reader[o].at = "forget"
  /\ Proceed(o, [reader[o] EXCEPT !.at = "done", !.left = <<>>])
  /\ UNCHANGED <<entry, now, puts, kept, crossed>>

Tick ==
  /\ now < MaxNow
  /\ now' = now + 1
  /\ UNCHANGED <<entry, puts, reader, kept, crossed>>

MemNext ==
  \/ \E o \in MemCalls :
       \/ \E k \in Keys, ttl \in {0, 1, 2} : Put(o, k, ttl)
       \/ \E k \in Keys : Get(o, k) \/ Delete(o, k)
       \/ Judge(o) \/ Drop(o)
       \/ \E n \in Callers, scope \in Scopes : Forget(o, n, scope)
       \/ DeletePrefix(o) \/ Forgotten(o)
  \/ Tick

MemSpec == MemInit /\ [][MemNext]_memVars

-----------------------------------------------------------------------------
\* What was put stays, with the expiry it was given, until it expires, is put
\* again or is forgotten by its own caller, by its key or a pattern that
\* matches it; unless a Get that had found its predecessor expired was still
\* on its way.  (sqlite.go:54-138, 206-225)
PutsStay ==
  \A k \in Keys :
    kept[k] # NoEntry /\ ~Expired(kept[k])
      => (k \in Shown(k[1]) /\ entry[k] = kept[k]) \/ k \in crossed

\* Without the exception TLC refutes it: Get deletes by key, not by row.
PutsAlwaysStay ==
  \A k \in Keys : kept[k] # NoEntry /\ ~Expired(kept[k]) => entry[k] = kept[k]

\* "A literal memory key" is forgotten with all it begins (api/memory.go:329).
ForgetsWhatIsMeant ==
  [][\A o \in MemCalls : DeletePrefix(o) =>
       \A k \in Keys : kept[k] # NoEntry /\ kept'[k] = NoEntry
         => k[2] \in Meant[Head(reader[o].left)]]_memVars
=============================================================================
