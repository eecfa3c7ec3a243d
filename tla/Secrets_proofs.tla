-------------------------- MODULE Secrets_proofs ---------------------------
(***************************************************************************)
(* That the invariants of SecretsInv are inductive, and that the vault and *)
(* the gateway hand out and use the secrets that are due.                  *)
(***************************************************************************)
EXTENDS SecretsInv, WellOrder

-----------------------------------------------------------------------------
(* Vault *)

\* What Precedes says of the first candidate: there is one, and none is more
\* specific, as no two have a name in common.
LEMMA FirstIs ==
  ASSUME NEW rows \in [CredIds -> [name : CredNames \cup {0}, score : Scores \cup {0}]],
         NEW S \in SUBSET CredIds, S # {},
         \A i, j \in S : rows[i].name = rows[j].name => i = j
  PROVE  /\ FirstMatch(rows, S) \in S
         /\ \A j \in S : rows[j].score <= rows[FirstMatch(rows, S)].score
<1>1. Scores \subseteq Nat /\ CredNames \subseteq Nat /\ MaxCreds \in Nat
  BY VaultAssumption
<1>2. \A j \in S : rows[j].score \in Nat /\ rows[j].name \in Nat
  <2>1. Scores \cup {0} \subseteq Nat /\ CredNames \cup {0} \subseteq Nat
    BY <1>1
  <2>2. \A j \in S : rows[j].score \in Scores \cup {0} /\ rows[j].name \in CredNames \cup {0}
    OBVIOUS
  <2>. QED  BY <2>1, <2>2
<1>. DEFINE T == {rows[j].score : j \in S}
<1>3. T \subseteq Nat /\ T # {} /\ IsFiniteSet(T)
  <2>1. IsFiniteSet(CredIds)
    BY <1>1, FS_Interval DEF CredIds
  <2>2. IsFiniteSet(S)
    BY <2>1, FS_Subset
  <2>3. [j \in S |-> rows[j].score] \in Surjection(S, T)
    BY DEF Surjection
  <2>4. IsFiniteSet(T)
    BY <2>2, <2>3, FS_Surjection
  <2>. QED  BY <1>2, <2>4
<1>4. PICK g \in T : \A y \in T : y <= g
  BY <1>3, FiniteHasGreatest
<1>. DEFINE U == {rows[j].name : j \in {i \in S : rows[i].score = g}}
<1>5. U \subseteq Nat /\ U # {}
  BY <1>2, <1>4
<1>6. PICK m \in U : \A y \in U : m <= y
  BY <1>5, LeastExists
<1>7. PICK i \in S : rows[i].score = g /\ rows[i].name = m
  BY <1>6
<1>8. \A j \in S : rows[j].score <= g /\ (rows[j].score = g => m <= rows[j].name)
  BY <1>4, <1>6
<1>. HIDE DEF T, U
<1>9. \A j \in S \ {i} : Precedes(rows, i, j)
  <2>1. SUFFICES ASSUME NEW j \in S, j # i PROVE Precedes(rows, i, j)
    OBVIOUS
  <2>2. /\ rows[i].score \in Nat /\ rows[j].score \in Nat /\ rows[i].name \in Nat /\ rows[j].name \in Nat
        /\ rows[j].score <= rows[i].score
        /\ rows[j].score = rows[i].score => rows[i].name <= rows[j].name
        /\ rows[i].name # rows[j].name
    BY <1>2, <1>7, <1>8, <2>1
  <2>. QED  BY <2>2 DEF Precedes
<1>10. \E f \in S : \A j \in S \ {f} : Precedes(rows, f, j)
  BY <1>7, <1>9
<1>11. FirstMatch(rows, S) \in S /\ \A j \in S \ {FirstMatch(rows, S)} : Precedes(rows, FirstMatch(rows, S), j)
  BY <1>10 DEF FirstMatch
<1>12. ASSUME NEW j \in S PROVE rows[j].score <= rows[FirstMatch(rows, S)].score
  <2>1. CASE j = FirstMatch(rows, S)
    BY <1>2, <2>1
  <2>2. CASE j # FirstMatch(rows, S)
    BY <1>2, <1>11, <2>2 DEF Precedes
  <2>. QED  BY <2>1, <2>2
<1>. QED  BY <1>11, <1>12

\* What is asked about are rows, and what is readable among them.
LEMMA ReadableIs ==
  ASSUME NEW table, NEW lists, NEW k
  PROVE  About(table, k) \subseteq CredIds /\ Readable(table, lists, k) \subseteq About(table, k)
  BY DEF About, Readable

\* Requests that have not begun, ...
LEMMA NoAskIs ==
  NoAsk \in Asks /\ NoAsk.at = "none" /\ NoAsk.result = "none" /\ NoAsk.always = {} /\ NoAsk.ever = {}
<1>1. MaxCreds \in Nat /\ 0 \in 0..MaxCreds
  BY VaultAssumption
<1>2. Listed([j \in CredIds |-> NoCred]) \in [CredIds -> [name : CredNames \cup {0}, score : Scores \cup {0}]]
  BY DEF Listed, NoCred
<1>. QED  BY <1>1, <1>2 DEF NoAsk, Asks, Grantees, Results

\* ... and that ended.
LEMMA EndedIs ==
  ASSUME NEW k \in Asks, NEW r \in Results
  PROVE  /\ Ended(k, r) \in Asks /\ Ended(k, r).at = "over" /\ Ended(k, r).result = r
         /\ Ended(k, r).always = k.always /\ Ended(k, r).ever = k.ever /\ Ended(k, r).id = k.id
         /\ Ended(k, r).listed = k.listed
  BY DEF Ended, Asks

\* So do those whose end is logged.
LEMMA LoggedIs ==
  ASSUME NEW k \in Asks, NEW b \in BOOLEAN
  PROVE  LET l == [k EXCEPT !.logged = b] IN
         /\ l \in Asks /\ l.at = k.at /\ l.result = k.result
         /\ l.always = k.always /\ l.ever = k.ever /\ l.id = k.id /\ l.listed = k.listed
  BY DEF Asks

\* A database of earlier lives keeps to the invariant, whatever it holds.
LEMMA VaultInitInv == VaultInit => VaultInv
<1>. SUFFICES ASSUME VaultInit PROVE VaultInv  OBVIOUS
<1>1. /\ made \in 0..MaxCreds /\ MaxCreds \in Nat /\ env \in {0, made + 1} /\ stored = made + 1
      /\ boot = "hydrate" /\ ask = [c \in VaultCalls |-> NoAsk]
  BY VaultAssumption DEF VaultInit
<1>2a. VaultInit
  OBVIOUS
<1>2. PICK n \in [1..made -> CredNames], s \in [1..made -> Scores], e \in [1..made -> Sources],
           g \in [1..made -> SUBSET Grantees] :
       /\ \A i, j \in 1..made : n[i] = n[j] => i = j
       /\ \A j \in 1..made : e[j] = "env" => n[j] = EnvName
       /\ creds = [j \in CredIds |-> IF j > made THEN NoCred ELSE
                     [name |-> n[j], score |-> s[j], secret |-> j, source |-> e[j], by |-> e[j]]]
       /\ acl = [j \in CredIds |-> IF j > made THEN {} ELSE g[j]]
  BY <1>2a, Zenon DEF VaultInit
<1>3. \A j \in CredIds : j \in Nat /\ (~(j > made) => j \in 1..made)
  BY <1>1 DEF CredIds
<1>4. \A m \in CredNames : m # 0
  BY VaultAssumption
<1>5. ASSUME NEW j \in CredIds
      PROVE  /\ creds[j] \in CredRows /\ acl[j] \in SUBSET Grantees
             /\ j > made => creds[j] = NoCred /\ acl[j] = {}
             /\ ~(j > made) => j \in 1..made /\ creds[j].name = n[j]
  <2>1. CASE j > made
    <3>1. creds[j] = NoCred /\ acl[j] = {}
      BY <1>2, <2>1
    <3>2. NoCred \in CredRows
      BY DEF NoCred, CredRows, Sources
    <3>. QED  BY <2>1, <3>1, <3>2
  <2>2. CASE ~(j > made)
    <3>1. /\ creds[j] = [name |-> n[j], score |-> s[j], secret |-> j, source |-> e[j], by |-> e[j]]
          /\ acl[j] = g[j] /\ j \in 1..made
      BY <1>2, <1>3, <2>2
    <3>2. creds[j] \in CredRows
      BY <1>3, <3>1 DEF CredRows
    <3>. QED  BY <2>2, <3>1, <3>2
  <2>. QED  BY <2>1, <2>2
<1>6. creds \in [CredIds -> CredRows] /\ acl \in [CredIds -> SUBSET Grantees]
  <2>1. creds = [j \in CredIds |-> creds[j]] /\ acl = [j \in CredIds |-> acl[j]]
    BY <1>2
  <2>. QED  BY <1>5, <2>1
<1>7. VaultTypeOK
  BY <1>1, <1>6, NoAskIs DEF VaultTypeOK
<1>8. RowInv
  <2>1. \A j \in CredIds : Held(j) <=> ~(j > made)
    BY <1>4, <1>5 DEF Held, NoCred
  <2>2. \A j \in CredIds : ~(j > made) => j <= made
    BY <1>1, <1>3
  <2>. QED  BY <1>2, <1>5, <2>1, <2>2 DEF RowInv
<1>9. \A c \in VaultCalls : AskOK(ask[c])
  BY <1>1, NoAskIs DEF AskOK
<1>. QED  BY <1>7, <1>8, <1>9 DEF VaultInv

\* A change of the tables that keeps what rows were listed with: the calls under
\* way have what they could read throughout, and at some moment, brought up to
\* date, and the call that made it is none of them.
LEMMA WriteStep ==
  ASSUME VaultInv, NEW table \in [CredIds -> CredRows], NEW lists \in [CredIds -> SUBSET Grantees],
         NEW c \in VaultCalls, NEW n \in Asks, Write(table, lists, [ask EXCEPT ![c] = n]),
         n.at \notin {"look", "fetch"}, n.result \notin {"allowed", "denied", "no_match"},
         n.at # "over" => n.result = "none",
         made' \in 0..MaxCreds, made <= made', stored' \in Nat, UNCHANGED <<env, boot>>,
         \A j \in CredIds : /\ table[j].name # 0 => j <= made'
                            /\ table[j].name = 0 => lists[j] = {}
                            /\ j <= made /\ table[j].name # 0 =>
                                 table[j].name = creds[j].name /\ table[j].score = creds[j].score,
         \A i, j \in CredIds : table[i].name # 0 /\ table[i].name = table[j].name => i = j
  PROVE  VaultInv'
<1>1. VaultTypeOK /\ RowInv /\ \A d \in VaultCalls : AskOK(ask[d])
  BY DEF VaultInv
<1>2. creds' = table /\ acl' = lists
  BY DEF Write
<1>3. ASSUME NEW d \in VaultCalls
      PROVE  ask'[d] \in Asks /\ AskOK(ask[d])'
  <2>1. CASE d = c
    <3>1. ask'[d] = n
      BY <1>1, <2>1 DEF Write, VaultTypeOK
    <3>. QED  BY <3>1 DEF AskOK
  <2>2. CASE d # c
    <3>. DEFINE k == ask[d]
    <3>1. k \in Asks /\ AskOK(k)
      BY <1>1 DEF VaultTypeOK
    <3>2. [ask EXCEPT ![c] = n][d] = k
      BY <1>1, <2>2 DEF VaultTypeOK
    <3>3. CASE ~Asking(d)
      <4>1. ask'[d] = k
        BY <3>2, <3>3 DEF Write, Asking
      <4>. QED  BY <3>1, <3>3, <4>1 DEF AskOK, Asking
    <3>4. CASE Asking(d)
      <4>. DEFINE now == Readable(table, lists, k)
                  l == [k EXCEPT !.always = @ \cap now, !.ever = @ \cup now]
      <4>1. ask'[d] = l
        BY <3>2, <3>4 DEF Write, Asking
      <4>2. now \subseteq CredIds
        BY ReadableIs
      <4>3. l \in Asks
        BY <3>1, <4>2 DEF Asks
      <4>4. /\ l.at = k.at /\ l.actor = k.actor /\ l.wanted = k.wanted /\ l.left = k.left /\ l.id = k.id
            /\ l.listed = k.listed /\ l.result = k.result /\ l.always = k.always \cap now
            /\ l.ever = k.ever \cup now
        BY <3>1 DEF Asks
      <4>. HIDE DEF l
      <4>5. Readable(table, lists, l) = now
        BY <4>4 DEF Readable, About
      <4>. HIDE DEF now
      <4>6. k.at \in {"look", "fetch"} /\ k.result = "none" /\ boot' = "serving"
        BY <3>1, <3>4 DEF Asking, AskOK
      <4>7. CASE k.at = "look"
        <5>1. /\ k.left # {} /\ k.always \subseteq k.left
              /\ \A i \in k.left :
                   /\ i <= made /\ k.listed[i].name # 0
                   /\ IF k.wanted = 0 THEN k.listed[i].score > 0 ELSE k.listed[i].name = k.wanted
                   /\ Held(i) => creds[i].name = k.listed[i].name /\ creds[i].score = k.listed[i].score
                   /\ \A j \in k.left : k.listed[i].name = k.listed[j].name => i = j
          BY <3>1, <4>7 DEF AskOK
        <5>2. \A i \in k.left : i \in CredIds /\ i \in Nat /\ made \in Nat /\ made' \in Nat
          BY <1>1, <3>1, VaultAssumption DEF Asks, CredIds, VaultTypeOK
        <5>3. \A i \in k.left : i <= made'
          BY <5>1, <5>2
        <5>4. \A i \in k.left : Held(i)' => creds'[i].name = k.listed[i].name
                                            /\ creds'[i].score = k.listed[i].score
          BY <1>2, <5>1, <5>2 DEF Held
        <5>. QED  BY <1>2, <4>1, <4>3, <4>4, <4>5, <4>6, <4>7, <5>1, <5>3, <5>4 DEF AskOK
      <4>8. CASE k.at = "fetch"
        <5>1. k.id \in k.ever /\ \A j \in k.always : k.listed[j].score <= k.listed[k.id].score
          BY <3>1, <4>8 DEF AskOK
        <5>. QED  BY <1>2, <4>1, <4>3, <4>4, <4>5, <4>6, <4>8, <5>1 DEF AskOK
      <4>. QED  BY <4>6, <4>7, <4>8
    <3>. QED  BY <3>3, <3>4
  <2>. QED  BY <2>1, <2>2
<1>4. ask' \in [VaultCalls -> Asks]
  <2>. DEFINE asks == [ask EXCEPT ![c] = n]
              New(k) == IF k.at \in {"look", "fetch"}
                          THEN [k EXCEPT !.always = @ \cap Readable(table, lists, k),
                                         !.ever = @ \cup Readable(table, lists, k)]
                          ELSE k
  <2>1. ask' = [d \in VaultCalls |-> New(asks[d])]
    BY DEF Write
  <2>. HIDE DEF New, asks
  <2>2. \A d \in VaultCalls : New(asks[d]) \in Asks
    BY <1>3, <2>1
  <2>. QED  BY <2>1, <2>2
<1>5. VaultTypeOK'
  BY <1>1, <1>2, <1>4 DEF VaultTypeOK
<1>6. RowInv'
  BY <1>2 DEF RowInv, Held
<1>. QED  BY <1>3, <1>5, <1>6 DEF VaultInv

\* A step of one call that leaves the tables alone.
LEMMA TurnStep ==
  ASSUME VaultInv, NEW c \in VaultCalls, NEW n \in Asks, Turn(c, n), AskOK(n), Rest
  PROVE  VaultInv'
<1>1. UNCHANGED <<creds, acl, made, stored, env, boot>> /\ ask' = [ask EXCEPT ![c] = n]
  BY DEF Turn, Rest
<1>2. VaultTypeOK'
  BY <1>1 DEF VaultInv, VaultTypeOK
<1>3. RowInv'
  BY <1>1 DEF VaultInv, RowInv, Held
<1>4. ASSUME NEW d \in VaultCalls PROVE AskOK(ask[d])'
  <2>1. ask'[d] = IF d = c THEN n ELSE ask[d]
    BY <1>1 DEF VaultInv, VaultTypeOK
  <2>2. AskOK(IF d = c THEN n ELSE ask[d])
    BY DEF VaultInv
  <2>3. \A m : AskOK(m) => /\ m.at # "over" => m.result = "none"
                           /\ AskOK(m)
    BY DEF AskOK
  <2>. QED  BY <1>1, <2>1, <2>2 DEF AskOK, Held, Readable, About
<1>. QED  BY <1>2, <1>3, <1>4 DEF VaultInv

\* What the invariant says of the calls, and of an ask that has just begun.
LEMMA VaultFacts ==
  ASSUME VaultInv
  PROVE  /\ MaxCreds \in Nat /\ made \in 0..MaxCreds /\ stored \in Nat /\ env \in Nat
         /\ creds \in [CredIds -> CredRows] /\ acl \in [CredIds -> SUBSET Grantees]
         /\ ask \in [VaultCalls -> Asks] /\ CredIds = 1..MaxCreds
         /\ \A c \in VaultCalls : ask[c] \in Asks /\ AskOK(ask[c])
         /\ \A j \in CredIds : j \in Nat /\ (creds[j].name # 0 => j <= made)
                               /\ (creds[j].name = 0 => acl[j] = {})
         /\ \A i, j \in CredIds : creds[i].name # 0 /\ creds[i].name = creds[j].name => i = j
<1>1. MaxCreds \in Nat
  BY VaultAssumption
<1>2. VaultTypeOK /\ RowInv /\ \A c \in VaultCalls : AskOK(ask[c])
  BY DEF VaultInv
<1>3. /\ \A j \in CredIds : j \in Nat /\ (creds[j].name # 0 => j <= made)
                               /\ (creds[j].name = 0 => acl[j] = {})
  BY <1>1, <1>2 DEF RowInv, Held, CredIds
<1>4. \A i, j \in CredIds : creds[i].name # 0 /\ creds[i].name = creds[j].name => i = j
  BY <1>2 DEF RowInv, Held
<1>. QED  BY <1>1, <1>2, <1>3, <1>4 DEF VaultTypeOK, CredIds

\* Requests under way that ask for no secret have come to no result.
LEMMA BegunIs ==
  ASSUME NEW j \in 0..MaxCreds, NEW p \in {"insert", "rotate", "erase"}
  PROVE  LET k == [NoAsk EXCEPT !.at = p, !.id = j]
         IN  k \in Asks /\ k.at = p /\ k.result = "none"
  BY NoAskIs DEF Asks

\* Nor have those that grant.
LEMMA BegunForIs ==
  ASSUME NEW a \in Grantees, NEW j \in 0..MaxCreds
  PROVE  LET k == [NoAsk EXCEPT !.at = "insert", !.actor = a, !.id = j]
         IN  k \in Asks /\ k.at = "insert" /\ k.result = "none"
  BY NoAskIs DEF Asks

-----------------------------------------------------------------------------
(* Vault: the steps *)

\* A refused request changes nothing.
LEMMA RefuseStep ==
  ASSUME VaultInv, NEW c \in VaultCalls, Refuse(c) PROVE VaultInv'
<1>1. Ended(NoAsk, "refused") \in Asks /\ Ended(NoAsk, "refused").at = "over"
      /\ Ended(NoAsk, "refused").result = "refused"
  <2>1. "refused" \in Results
    BY DEF Results
  <2>. QED  BY <2>1, NoAskIs, EndedIs
<1>2. AskOK(Ended(NoAsk, "refused"))
  BY <1>1 DEF AskOK
<1>. QED  BY <1>1, <1>2, TurnStep DEF Refuse

\* A new row has an id and a name no row has had.
LEMMA CreateStep ==
  ASSUME VaultInv, NEW c \in VaultCalls, NEW n \in CredNames, NEW score \in Scores, Create(c, n, score)
  PROVE  VaultInv'
<1>. DEFINE row == [name |-> n, score |-> score, secret |-> stored', source |-> "user", by |-> "user"]
            table == [creds EXCEPT ![made'] = row]
            k == [NoAsk EXCEPT !.at = "insert", !.actor = "*", !.id = made']
<1>1. /\ CredOf(n) = {} /\ made < MaxCreds /\ made' = made + 1 /\ stored' = stored + 1
      /\ Write(table, acl, [ask EXCEPT ![c] = k]) /\ UNCHANGED <<env, boot>>
  BY DEF Create
<1>2. made' \in 0..MaxCreds /\ made' \in CredIds /\ made <= made' /\ stored' \in Nat /\ ~(made' <= made)
  BY <1>1, VaultFacts
<1>3. row \in CredRows /\ row.name = n /\ n # 0
  BY <1>2, VaultAssumption DEF CredRows, Sources
<1>4. k \in Asks /\ k.at = "insert" /\ k.result = "none"
  <2>1. "*" \in Grantees
    BY DEF Grantees
  <2>. QED  BY <1>2, <2>1, BegunForIs
<1>. HIDE DEF row, k
<1>5. table \in [CredIds -> CredRows]
      /\ \A j \in CredIds : table[j] = IF j = made' THEN row ELSE creds[j]
  BY <1>2, <1>3, VaultFacts
<1>. HIDE DEF table
<1>6. \A j \in CredIds : /\ table[j].name # 0 => j <= made'
                         /\ table[j].name = 0 => acl[j] = {}
                         /\ j <= made /\ table[j].name # 0 =>
                              table[j].name = creds[j].name /\ table[j].score = creds[j].score
  BY <1>1, <1>2, <1>3, <1>5, VaultFacts
<1>7. \A i, j \in CredIds : table[i].name # 0 /\ table[i].name = table[j].name => i = j
  <2>1. \A j \in CredIds : creds[j].name # n
    BY <1>1, <1>3 DEF CredOf, Held
  <2>. QED  BY <1>3, <1>5, <2>1, VaultFacts
<1>. QED  BY <1>1, <1>2, <1>4, <1>5, <1>6, <1>7, VaultFacts, WriteStep

\* A grant reads a row that is there, ...
LEMMA ReadForGrantStep ==
  ASSUME VaultInv, NEW c \in VaultCalls, NEW j \in 1..made, NEW g \in Grantees, ReadForGrant(c, j, g)
  PROVE  VaultInv'
<1>. DEFINE k == [NoAsk EXCEPT !.at = "insert", !.actor = g, !.id = j]
<1>1. j \in 0..MaxCreds
  BY VaultFacts
<1>2. k \in Asks /\ k.at = "insert" /\ k.result = "none"
  BY <1>1, BegunForIs
<1>3. Turn(c, k) /\ Rest
  BY DEF ReadForGrant
<1>. HIDE DEF k
<1>4. AskOK(k)
  BY <1>2 DEF AskOK
<1>. QED  BY <1>2, <1>3, <1>4, TurnStep

\* A rotation reads a row that is there.
LEMMA ReadForRotateStep ==
  ASSUME VaultInv, NEW c \in VaultCalls, NEW j \in 1..made, ReadForRotate(c, j)
  PROVE  VaultInv'
<1>. DEFINE k == [NoAsk EXCEPT !.at = "rotate", !.id = j]
<1>1. j \in 0..MaxCreds
  BY VaultFacts
<1>2. k \in Asks /\ k.at = "rotate" /\ k.result = "none"
  BY <1>1, BegunIs
<1>3. Turn(c, k) /\ Rest
  BY DEF ReadForRotate
<1>. HIDE DEF k
<1>4. AskOK(k)
  BY <1>2 DEF AskOK
<1>. QED  BY <1>2, <1>3, <1>4, TurnStep

\* A change of the access lists alone, that grants nothing of what is gone.
LEMMA ListStep ==
  ASSUME VaultInv, NEW lists \in [CredIds -> SUBSET Grantees], NEW c \in VaultCalls, NEW n \in Asks,
         Write(creds, lists, [ask EXCEPT ![c] = n]), Rest,
         n.at \notin {"look", "fetch"}, n.result \notin {"allowed", "denied", "no_match"},
         n.at # "over" => n.result = "none",
         \A j \in CredIds : creds[j].name = 0 => lists[j] = {}
  PROVE  VaultInv'
<1>1. made' = made /\ stored' = stored /\ UNCHANGED <<env, boot>>
  BY DEF Rest
<1>2. made' \in 0..MaxCreds /\ made <= made' /\ stored' \in Nat
  BY <1>1, VaultFacts
<1>. QED  BY <1>1, <1>2, VaultFacts, WriteStep

\* ... and is entered only while it is.
LEMMA InsertGrantStep ==
  ASSUME VaultInv, NEW c \in VaultCalls, InsertGrant(c) PROVE VaultInv'
<1>. DEFINE j == ask[c].id
<1>1. ask[c] \in Asks /\ AskOK(ask[c]) /\ ask[c].actor \in Grantees
  BY VaultFacts DEF Asks
<1>2. ask[c].at = "insert" /\ Rest
  BY DEF InsertGrant
<1>3. ASSUME NEW r \in {"granted", "failed"}
      PROVE  /\ Ended(ask[c], r) \in Asks /\ Ended(ask[c], r).at = "over" /\ Ended(ask[c], r).result = r
             /\ AskOK(Ended(ask[c], r))
  <2>1. Ended(ask[c], r) \in Asks /\ Ended(ask[c], r).at = "over" /\ Ended(ask[c], r).result = r
    BY <1>1, EndedIs DEF Results
  <2>. QED  BY <2>1 DEF AskOK
<1>4. CASE Turn(c, Ended(ask[c], "failed"))
  BY <1>2, <1>3, <1>4, TurnStep
<1>5. CASE /\ Held(j)
           /\ Write(creds, [acl EXCEPT ![j] = @ \cup {ask[c].actor}], [ask EXCEPT ![c] = Ended(@, "granted")])
  <2>. DEFINE lists == [acl EXCEPT ![j] = @ \cup {ask[c].actor}]
  <2>1. lists \in [CredIds -> SUBSET Grantees]
    BY <1>1, VaultFacts
  <2>2. \A i \in CredIds : creds[i].name = 0 => lists[i] = {}
    BY <1>5, VaultFacts DEF Held
  <2>3. Write(creds, lists, [ask EXCEPT ![c] = Ended(ask[c], "granted")])
    BY <1>5
  <2>. HIDE DEF lists
  <2>. QED  BY <1>2, <1>3, <2>1, <2>2, <2>3, ListStep
<1>. QED  BY <1>4, <1>5 DEF InsertGrant

\* A grant is taken away.
LEMMA RevokeStep ==
  ASSUME VaultInv, NEW c \in VaultCalls, NEW j \in 1..made, NEW g \in Grantees, Revoke(c, j, g)
  PROVE  VaultInv'
<1>. DEFINE lists == [acl EXCEPT ![j] = @ \ {g}]
            k == Ended(NoAsk, "revoked")
<1>1. Write(creds, lists, [ask EXCEPT ![c] = k]) /\ Rest
  BY DEF Revoke
<1>2. lists \in [CredIds -> SUBSET Grantees] /\ \A i \in CredIds : creds[i].name = 0 => lists[i] = {}
  BY VaultFacts
<1>3. k \in Asks /\ k.at = "over" /\ k.result = "revoked"
  <2>1. "revoked" \in Results
    BY DEF Results
  <2>. QED  BY <2>1, NoAskIs, EndedIs
<1>. HIDE DEF lists, k
<1>. QED  BY <1>1, <1>2, <1>3, ListStep

\* A deletion takes all grants away first, ...
LEMMA DeleteGrantsStep ==
  ASSUME VaultInv, NEW c \in VaultCalls, NEW j \in 1..made, DeleteGrants(c, j)
  PROVE  VaultInv'
<1>. DEFINE lists == [acl EXCEPT ![j] = {}]
            k == [NoAsk EXCEPT !.at = "erase", !.id = j]
<1>1. Write(creds, lists, [ask EXCEPT ![c] = k]) /\ Rest
  BY DEF DeleteGrants
<1>2. lists \in [CredIds -> SUBSET Grantees] /\ \A i \in CredIds : creds[i].name = 0 => lists[i] = {}
  BY VaultFacts
<1>3. k \in Asks /\ k.at = "erase" /\ k.result = "none"
  <2>1. j \in 0..MaxCreds
    BY VaultFacts
  <2>. QED  BY <2>1, BegunIs
<1>. HIDE DEF lists, k
<1>. QED  BY <1>1, <1>2, <1>3, ListStep

\* A rotation keeps name and patterns of its row.
LEMMA RotateStep ==
  ASSUME VaultInv, NEW c \in VaultCalls, Rotate(c) PROVE VaultInv'
<1>. DEFINE j == ask[c].id
            table == IF Held(j) THEN [creds EXCEPT ![j].secret = stored', ![j].by = "user"] ELSE creds
            k == [ask[c] EXCEPT !.secret = stored']
            l == Ended(k, "rotated")
<1>1. /\ stored' = stored + 1 /\ UNCHANGED <<made, env, boot>>
      /\ Write(table, acl, [ask EXCEPT ![c] = l])
  BY DEF Rotate
<1>2. stored' \in Nat /\ made' \in 0..MaxCreds /\ made <= made'
  BY <1>1, VaultFacts
<1>3. k \in Asks
  <2>1. ask[c] \in Asks
    BY VaultFacts
  <2>. QED  BY <1>2, <2>1 DEF Asks
<1>4. l \in Asks /\ l.at = "over" /\ l.result = "rotated"
  <2>1. "rotated" \in Results
    BY DEF Results
  <2>. HIDE DEF k
  <2>. QED  BY <1>3, <2>1, EndedIs
<1>5. table \in [CredIds -> CredRows]
      /\ \A i \in CredIds : table[i].name = creds[i].name /\ table[i].score = creds[i].score
  <2>1. \A r \in CredRows : /\ [[r EXCEPT !.secret = stored'] EXCEPT !.by = "user"] \in CredRows
                            /\ [[r EXCEPT !.secret = stored'] EXCEPT !.by = "user"].name = r.name
                            /\ [[r EXCEPT !.secret = stored'] EXCEPT !.by = "user"].score = r.score
    BY <1>2 DEF CredRows, Sources
  <2>2. CASE j \notin CredIds
    BY <2>2, VaultFacts
  <2>3. CASE j \in CredIds
    <3>. DEFINE r == [[creds[j] EXCEPT !.secret = stored'] EXCEPT !.by = "user"]
    <3>1. table = IF Held(j) THEN [creds EXCEPT ![j] = r] ELSE creds
      BY <2>3, VaultFacts DEF CredRows
    <3>2. r \in CredRows /\ r.name = creds[j].name /\ r.score = creds[j].score
      BY <2>1, <2>3, VaultFacts
    <3>. HIDE DEF r, table
    <3>. QED  BY <2>3, <3>1, <3>2, VaultFacts
  <2>. QED  BY <2>2, <2>3
<1>. HIDE DEF table, l
<1>6. \A i \in CredIds : /\ table[i].name # 0 => i <= made'
                         /\ table[i].name = 0 => acl[i] = {}
                         /\ i <= made /\ table[i].name # 0 =>
                              table[i].name = creds[i].name /\ table[i].score = creds[i].score
  BY <1>1, <1>5, VaultFacts
<1>7. \A i, m \in CredIds : table[i].name # 0 /\ table[i].name = table[m].name => i = m
  BY <1>5, VaultFacts
<1>8. acl \in [CredIds -> SUBSET Grantees] /\ UNCHANGED <<env, boot>>
  BY <1>1, VaultFacts
<1>. QED  BY <1>1, <1>2, <1>4, <1>5, <1>6, <1>7, <1>8, WriteStep

\* ... and then the row, with what was granted in between.
LEMMA DeleteCredStep ==
  ASSUME VaultInv, NEW c \in VaultCalls, DeleteCred(c) PROVE VaultInv'
<1>. DEFINE j == ask[c].id
            table == [creds EXCEPT ![j] = NoCred]
            lists == [acl EXCEPT ![j] = {}]
            r == IF Held(j) THEN "deleted" ELSE "unknown"
            l == Ended(ask[c], r)
<1>1. Write(table, lists, [ask EXCEPT ![c] = l]) /\ Rest
  BY DEF DeleteCred
<1>2. l \in Asks /\ l.at = "over" /\ l.result \in {"deleted", "unknown"}
  <2>1. ask[c] \in Asks /\ r \in Results /\ r \in {"deleted", "unknown"}
    BY VaultFacts DEF Results
  <2>. HIDE DEF r
  <2>. QED  BY <2>1, EndedIs
<1>3. NoCred \in CredRows /\ NoCred.name = 0
  BY DEF NoCred, CredRows, Sources
<1>4. /\ table \in [CredIds -> CredRows] /\ lists \in [CredIds -> SUBSET Grantees]
      /\ \A i \in CredIds : table[i] = IF i = j THEN NoCred ELSE creds[i]
      /\ \A i \in CredIds : lists[i] = IF i = j THEN {} ELSE acl[i]
  BY <1>3, VaultFacts
<1>5. made' \in 0..MaxCreds /\ made' = made /\ made <= made' /\ stored' \in Nat /\ UNCHANGED <<env, boot>>
  <2>1. UNCHANGED <<made, stored, env, boot>>
    BY <1>1 DEF Rest
  <2>. QED  BY <2>1, VaultFacts
<1>. HIDE DEF table, lists, l
<1>6. \A i \in CredIds : /\ table[i].name # 0 => i <= made'
                         /\ table[i].name = 0 => lists[i] = {}
                         /\ i <= made /\ table[i].name # 0 =>
                              table[i].name = creds[i].name /\ table[i].score = creds[i].score
  BY <1>3, <1>4, <1>5, VaultFacts
<1>7. \A i, m \in CredIds : table[i].name # 0 /\ table[i].name = table[m].name => i = m
  BY <1>3, <1>4, VaultFacts
<1>. QED  BY <1>1, <1>2, <1>4, <1>5, <1>6, <1>7, WriteStep

\* A call that ends, and logs what became of it or does not.
LEMMA LoggedStep ==
  ASSUME VaultInv, NEW c \in VaultCalls, NEW k \in Asks, NEW r \in Results, Logged(c, k, r), Rest,
         r = "allowed" => /\ k.id \in k.ever
                          /\ \A j \in k.always : k.listed[j].score <= k.listed[k.id].score,
         r \in {"denied", "no_match"} => k.always = {}
  PROVE  VaultInv'
<1>. DEFINE e == Ended(k, r)
<1>1. PICK b \in BOOLEAN : Turn(c, [e EXCEPT !.logged = b])
  BY DEF Logged
<1>2. /\ e \in Asks /\ e.at = "over" /\ e.result = r
      /\ e.always = k.always /\ e.ever = k.ever /\ e.id = k.id /\ e.listed = k.listed
  BY EndedIs
<1>. HIDE DEF e
<1>. DEFINE l == [e EXCEPT !.logged = b]
<1>3. /\ l \in Asks /\ l.at = "over" /\ l.result = r
      /\ l.always = k.always /\ l.ever = k.ever /\ l.id = k.id /\ l.listed = k.listed
  BY <1>2, LoggedIs
<1>. HIDE DEF l
<1>4. AskOK(l)
  BY <1>3 DEF AskOK
<1>5. Turn(c, l)
  BY <1>1 DEF l
<1>. QED  BY <1>3, <1>4, <1>5, TurnStep

\* What a call has listed is there, under the name and with the patterns it has
\* now, and what it may read of it is what it can read throughout so far.
LEMMA LookStep ==
  ASSUME VaultInv, NEW c \in VaultCalls, NEW a \in Actors, NEW n \in CredNames \cup {0},
         Begins(c), Look(c, a, n), Rest
  PROVE  VaultInv'
<1>. DEFINE k == [NoAsk EXCEPT !.at = "look", !.actor = a, !.wanted = n]
            hits == About(creds, k)
            now == Readable(creds, acl, k)
            l == [k EXCEPT !.left = hits, !.always = now, !.ever = now, !.listed = Listed(creds)]
<1>1. /\ k \in Asks /\ k.at = "look" /\ k.actor = a /\ k.wanted = n /\ k.result = "none" /\ k.always = {}
  <2>1. a \in Grantees
    BY DEF Grantees
  <2>. QED  BY <2>1, NoAskIs DEF Asks
<1>2. hits \subseteq CredIds /\ now \subseteq hits
  BY ReadableIs
<1>3. Listed(creds) \in [CredIds -> [name : CredNames \cup {0}, score : Scores \cup {0}]]
      /\ \A j \in CredIds : Listed(creds)[j].name = creds[j].name /\ Listed(creds)[j].score = creds[j].score
  BY VaultFacts DEF Listed, CredRows
<1>4. IF hits = {} THEN Logged(c, k, "no_match") ELSE Turn(c, l)
  BY DEF Look
<1>5. CASE hits = {}
  <2>1. "no_match" \in Results
    BY DEF Results
  <2>. HIDE DEF k
  <2>. QED  BY <1>1, <1>4, <1>5, <2>1, LoggedStep
<1>6. CASE hits # {}
  <2>1. \A j \in hits : /\ j <= made /\ creds[j].name # 0
                        /\ IF n = 0 THEN creds[j].score > 0 ELSE creds[j].name = n
    BY <1>1, <1>2, VaultFacts DEF About
  <2>2. now = Readable(creds, acl, l)
    <3>1. l.actor = k.actor /\ l.wanted = k.wanted
      BY <1>1, <1>2, <1>3 DEF Asks
    <3>. QED  BY <3>1 DEF Readable, About
  <2>. HIDE DEF k, hits, now
  <2>3. l \in Asks
    BY <1>1, <1>2, <1>3 DEF Asks
  <2>4. /\ l.at = "look" /\ l.actor = a /\ l.wanted = n /\ l.result = "none" /\ l.left = hits
        /\ l.always = now /\ l.ever = now /\ l.listed = Listed(creds)
    BY <1>1 DEF Asks
  <2>. HIDE DEF l
  <2>5. \A i \in hits :
            /\ i <= made /\ l.listed[i].name # 0
            /\ IF l.wanted = 0 THEN l.listed[i].score > 0 ELSE l.listed[i].name = l.wanted
            /\ Held(i) => creds[i].name = l.listed[i].name /\ creds[i].score = l.listed[i].score
            /\ \A j \in hits : l.listed[i].name = l.listed[j].name => i = j
    <3>1. \A i \in hits : /\ i <= made /\ l.listed[i].name # 0
                          /\ creds[i].name = l.listed[i].name /\ creds[i].score = l.listed[i].score
      BY <1>2, <1>3, <2>1, <2>4
    <3>2. \A i \in hits : IF l.wanted = 0 THEN l.listed[i].score > 0 ELSE l.listed[i].name = l.wanted
      BY <1>2, <1>3, <2>1, <2>4
    <3>3. \A i, j \in hits : l.listed[i].name = l.listed[j].name => i = j
      BY <1>2, <2>1, <3>1, VaultFacts
    <3>. QED  BY <3>1, <3>2, <3>3
  <2>6. boot = "serving"
    BY DEF Begins
  <2>7. AskOK(l)
    BY <1>2, <1>6, <2>2, <2>4, <2>5, <2>6 DEF AskOK
  <2>8. Turn(c, l)
    BY <1>4, <1>6
  <2>. QED  BY <2>3, <2>7, <2>8, TurnStep
<1>. QED  BY <1>5, <1>6

\* The candidate tried is as specific as any that is left, and what could be
\* read throughout is left: it is taken when its list allows the actor, and
\* when not it is none of those that could be read.
LEMMA CheckAclStep ==
  ASSUME VaultInv, NEW c \in VaultCalls, CheckAcl(c) PROVE VaultInv'
<1>. DEFINE k == ask[c]
            j == FirstMatch(k.listed, k.left)
<1>1. k \in Asks /\ k.at = "look" /\ AskOK(k) /\ Rest
  BY VaultFacts DEF CheckAcl
<1>2. /\ IF Allows(acl[j], k.actor) THEN Turn(c, [k EXCEPT !.at = "fetch", !.id = j])
         ELSE IF k.left = {j} THEN Logged(c, k, "denied")
         ELSE Turn(c, [k EXCEPT !.left = @ \ {j}])
  BY DEF CheckAcl
<1>3. /\ k.result = "none" /\ boot = "serving" /\ k.left # {} /\ k.always \subseteq k.left
      /\ k.always \subseteq Readable(creds, acl, k) /\ Readable(creds, acl, k) \subseteq k.ever
      /\ \A i \in k.left :
           /\ i <= made /\ k.listed[i].name # 0
           /\ IF k.wanted = 0 THEN k.listed[i].score > 0 ELSE k.listed[i].name = k.wanted
           /\ Held(i) => creds[i].name = k.listed[i].name /\ creds[i].score = k.listed[i].score
           /\ \A m \in k.left : k.listed[i].name = k.listed[m].name => i = m
  BY <1>1 DEF AskOK
<1>4. /\ k.listed \in [CredIds -> [name : CredNames \cup {0}, score : Scores \cup {0}]]
      /\ k.left \in SUBSET CredIds
  BY <1>1 DEF Asks
<1>5. j \in k.left /\ \A i \in k.left : k.listed[i].score <= k.listed[j].score
  BY <1>3, <1>4, FirstIs
<1>6. j \in CredIds
  BY <1>4, <1>5
<1>. HIDE DEF k, j
<1>7. CASE Allows(acl[j], k.actor)
  <2>. DEFINE l == [k EXCEPT !.at = "fetch", !.id = j]
  <2>1. l \in Asks
    <3>1. j \in 0..MaxCreds
      BY <1>6, VaultFacts
    <3>. QED  BY <1>1, <3>1 DEF Asks
  <2>2. /\ l.at = "fetch" /\ l.id = j /\ l.actor = k.actor /\ l.wanted = k.wanted /\ l.result = k.result
        /\ l.always = k.always /\ l.ever = k.ever /\ l.listed = k.listed
    BY <1>1 DEF Asks
  <2>3. Turn(c, l)
    BY <1>2, <1>7
  <2>. HIDE DEF l
  <2>4. Readable(creds, acl, l) = Readable(creds, acl, k)
    BY <2>2 DEF Readable, About
  <2>5. j \in k.ever
    <3>1. acl[j] # {}
      BY <1>7 DEF Allows
    <3>2. creds[j].name # 0
      BY <1>6, <3>1, VaultFacts
    <3>3. j \in About(creds, k)
      BY <1>3, <1>5, <1>6, <3>2 DEF About, Held
    <3>. QED  BY <1>3, <1>7, <3>3 DEF Readable
  <2>6. \A i \in k.always : k.listed[i].score <= k.listed[j].score
    BY <1>3, <1>5
  <2>7. AskOK(l)
    BY <1>3, <2>2, <2>4, <2>5, <2>6 DEF AskOK
  <2>. QED  BY <1>1, <2>1, <2>3, <2>7, TurnStep
<1>8. ASSUME ~Allows(acl[j], k.actor) PROVE k.always \subseteq k.left \ {j}
  BY <1>3, <1>8 DEF Readable
<1>9. CASE ~Allows(acl[j], k.actor) /\ k.left = {j}
  <2>1. Logged(c, k, "denied") /\ k.always = {}
    BY <1>2, <1>8, <1>9
  <2>2. "denied" \in Results
    BY DEF Results
  <2>. QED  BY <1>1, <2>1, <2>2, LoggedStep
<1>10. CASE ~Allows(acl[j], k.actor) /\ k.left # {j}
  <2>. DEFINE l == [k EXCEPT !.left = @ \ {j}]
  <2>1. l \in Asks
    BY <1>1, <1>4 DEF Asks
  <2>2. /\ l.at = "look" /\ l.left = k.left \ {j} /\ l.actor = k.actor /\ l.wanted = k.wanted
        /\ l.result = k.result /\ l.always = k.always /\ l.ever = k.ever /\ l.listed = k.listed
    BY <1>1 DEF Asks
  <2>3. Turn(c, l)
    BY <1>2, <1>10
  <2>. HIDE DEF l
  <2>4. Readable(creds, acl, l) = Readable(creds, acl, k)
    BY <2>2 DEF Readable, About
  <2>5. l.left # {} /\ l.always \subseteq l.left
    BY <1>5, <1>8, <1>10, <2>2
  <2>6. \A i \in l.left :
            /\ i <= made /\ l.listed[i].name # 0
            /\ IF l.wanted = 0 THEN l.listed[i].score > 0 ELSE l.listed[i].name = l.wanted
            /\ Held(i) => creds[i].name = l.listed[i].name /\ creds[i].score = l.listed[i].score
            /\ \A m \in l.left : l.listed[i].name = l.listed[m].name => i = m
    BY <1>3, <2>2
  <2>7. AskOK(l)
    BY <1>3, <2>2, <2>4, <2>5, <2>6 DEF AskOK
  <2>. QED  BY <1>1, <2>1, <2>3, <2>7, TurnStep
<1>. QED  BY <1>7, <1>9, <1>10

\* A call that has taken a candidate has the most specific that it could read.
LEMMA FetchCipherStep ==
  ASSUME VaultInv, NEW c \in VaultCalls, FetchCipher(c) PROVE VaultInv'
<1>. DEFINE k == ask[c]
            s == creds[k.id].secret
            l == [k EXCEPT !.secret = s]
<1>1. k \in Asks /\ k.at = "fetch" /\ AskOK(k) /\ Rest
  BY VaultFacts DEF FetchCipher
<1>2. IF Held(k.id) THEN Logged(c, l, "allowed") ELSE Turn(c, Ended(k, "gone"))
  BY DEF FetchCipher
<1>3. k.id \in k.ever /\ \A j \in k.always : k.listed[j].score <= k.listed[k.id].score
  BY <1>1 DEF AskOK
<1>. HIDE DEF k
<1>4. CASE Held(k.id)
  <2>1. k.id \in CredIds
    BY <1>1, <1>3 DEF Asks
  <2>2. s \in Nat
    BY <2>1, VaultFacts DEF CredRows
  <2>3. l \in Asks /\ l.id = k.id /\ l.ever = k.ever /\ l.always = k.always /\ l.listed = k.listed
    BY <1>1, <2>2 DEF Asks
  <2>. HIDE DEF l
  <2>4. "allowed" \in Results
    BY DEF Results
  <2>. QED  BY <1>1, <1>2, <1>3, <1>4, <2>3, <2>4, LoggedStep
<1>5. CASE ~Held(k.id)
  <2>1. "gone" \in Results
    BY DEF Results
  <2>2. Ended(k, "gone") \in Asks /\ Ended(k, "gone").at = "over" /\ Ended(k, "gone").result = "gone"
    BY <1>1, <2>1, EndedIs
  <2>3. AskOK(Ended(k, "gone"))
    BY <2>2 DEF AskOK
  <2>. QED  BY <1>1, <1>2, <1>5, <2>2, <2>3, TurnStep
<1>. QED  BY <1>4, <1>5

\* A call that fails has no secret.
LEMMA SqlFailsStep ==
  ASSUME VaultInv, NEW c \in VaultCalls, SqlFails(c) PROVE VaultInv'
<1>. DEFINE l == Ended(ask[c], "failed")
<1>1. Turn(c, l) /\ Rest
  BY DEF SqlFails
<1>2. l \in Asks /\ l.at = "over" /\ l.result = "failed"
  <2>1. ask[c] \in Asks /\ "failed" \in Results
    BY VaultFacts DEF Results
  <2>. QED  BY <2>1, EndedIs
<1>. HIDE DEF l
<1>3. AskOK(l)
  BY <1>2 DEF AskOK
<1>. QED  BY <1>1, <1>2, <1>3, TurnStep

-----------------------------------------------------------------------------
(* Vault: boot *)

\* No call asks before the routes serve.
LEMMA NobodyAsks ==
  ASSUME VaultInv, boot # "serving", UNCHANGED ask
  PROVE  \A c \in VaultCalls : AskOK(ask[c])'
<1>1. \A c \in VaultCalls : AskOK(ask[c]) /\ ~Asking(c)
  BY VaultFacts DEF AskOK, Asking
<1>. QED  BY <1>1 DEF AskOK, Asking

\* Hydration writes over the row of its name, or makes the one there is of it.
LEMMA HydrateFromEnvStep ==
  ASSUME VaultInv, NEW score \in Scores, HydrateFromEnv(score) PROVE VaultInv'
<1>. DEFINE row == [name |-> EnvName, score |-> score, secret |-> env, source |-> "env", by |-> "env"]
<1>1. boot = "hydrate" /\ UNCHANGED <<acl, ask, stored, env>>
  BY DEF HydrateFromEnv
<1>2. boot' \in {"grant", "serving"} /\ (UNCHANGED <<creds, made>> \/ \E new \in BOOLEAN : UpsertByName(row, new))
  BY DEF HydrateFromEnv
<1>3. row \in CredRows /\ row.name = EnvName /\ EnvName # 0
  BY VaultFacts, VaultAssumption DEF CredRows, Sources
<1>. HIDE DEF row
<1>4. \A c \in VaultCalls : AskOK(ask[c])'
  BY <1>1, NobodyAsks
<1>5. CASE UNCHANGED <<creds, made>>
  <2>1. VaultTypeOK'
    BY <1>1, <1>2, <1>5 DEF VaultInv, VaultTypeOK
  <2>2. RowInv'
    BY <1>1, <1>5 DEF VaultInv, RowInv, Held
  <2>. QED  BY <1>4, <2>1, <2>2 DEF VaultInv
<1>6. CASE \E j \in CredOf(EnvName) : creds' = [creds EXCEPT ![j] = row] /\ UNCHANGED made
  <2>1. PICK j \in CredIds : creds[j].name = EnvName /\ creds' = [creds EXCEPT ![j] = row] /\ UNCHANGED made
    BY <1>6 DEF CredOf
  <2>2. creds' \in [CredIds -> CredRows] /\ \A i \in CredIds : creds'[i].name = creds[i].name
    BY <1>3, <2>1, VaultFacts
  <2>3. VaultTypeOK'
    BY <1>1, <1>2, <2>1, <2>2, VaultFacts DEF VaultInv, VaultTypeOK
  <2>4. RowInv'
    BY <1>1, <2>1, <2>2 DEF VaultInv, RowInv, Held
  <2>. QED  BY <1>4, <2>3, <2>4 DEF VaultInv
<1>7. CASE CredOf(EnvName) = {} /\ made < MaxCreds /\ made' = made + 1 /\ creds' = [creds EXCEPT ![made'] = row]
  <2>1. made' \in 0..MaxCreds /\ made' \in CredIds /\ made <= made'
    BY <1>7, VaultFacts
  <2>2. creds' \in [CredIds -> CredRows] /\ \A i \in CredIds : creds'[i] = IF i = made' THEN row ELSE creds[i]
    BY <1>3, <1>7, <2>1, VaultFacts
  <2>3. VaultTypeOK'
    BY <1>1, <1>2, <2>1, <2>2 DEF VaultInv, VaultTypeOK
  <2>4. \A i \in CredIds : (creds'[i].name # 0 => i <= made') /\ (creds'[i].name = 0 => acl[i] = {})
    BY <1>3, <1>7, <2>1, <2>2, VaultFacts
  <2>5. \A i, j \in CredIds : creds'[i].name # 0 /\ creds'[i].name = creds'[j].name => i = j
    <3>1. \A i \in CredIds : creds[i].name # EnvName
      BY <1>3, <1>7 DEF CredOf, Held
    <3>. QED  BY <1>3, <2>2, <3>1, VaultFacts
  <2>6. RowInv'
    BY <1>1, <2>4, <2>5 DEF RowInv, Held
  <2>. QED  BY <1>4, <2>3, <2>6 DEF VaultInv
<1>. QED  BY <1>2, <1>3, <1>5, <1>6, <1>7 DEF UpsertByName

\* What is hydrated is granted to everybody while it is there.
LEMMA GrantHydratedStep ==
  ASSUME VaultInv, GrantHydrated PROVE VaultInv'
<1>1. boot = "grant" /\ boot' = "serving" /\ UNCHANGED <<creds, made, stored, env, ask>>
  BY DEF GrantHydrated
<1>2. PICK j \in CredIds : creds[j].name # 0 /\ acl' = [acl EXCEPT ![j] = @ \cup {"*"}]
  BY DEF GrantHydrated, CredOf, Held
<1>3. \A c \in VaultCalls : AskOK(ask[c])'
  BY <1>1, NobodyAsks
<1>4. acl' \in [CredIds -> SUBSET Grantees]
  <2>1. "*" \in Grantees
    BY DEF Grantees
  <2>. QED  BY <1>2, <2>1, VaultFacts
<1>5. VaultTypeOK'
  BY <1>1, <1>4 DEF VaultInv, VaultTypeOK
<1>6. RowInv'
  <2>1. \A i \in CredIds : (creds[i].name # 0 => i <= made) /\ (creds[i].name = 0 => acl'[i] = {})
    BY <1>2, VaultFacts
  <2>. QED  BY <1>1, <2>1, VaultFacts DEF RowInv, Held
<1>. QED  BY <1>3, <1>5, <1>6 DEF VaultInv

\* A crash ends every call.
LEMMA CrashStep ==
  ASSUME VaultInv, Crash PROVE VaultInv'
<1>. DEFINE lost == [NoAsk EXCEPT !.at = "over"]
<1>1. /\ boot' = "hydrate" /\ UNCHANGED <<creds, acl, made>>
      /\ ask' = [c \in VaultCalls |-> IF ask[c].at = "none" THEN NoAsk ELSE lost]
  BY DEF Crash
<1>2. stored' \in Nat /\ env' \in Nat
  <2>1. UNCHANGED <<env, stored>> \/ (stored' = stored + 1 /\ env' = stored')
    BY DEF Crash
  <2>. QED  BY <2>1, VaultFacts
<1>3. lost \in Asks /\ lost.at = "over" /\ lost.result = "none"
  BY NoAskIs DEF Asks
<1>. HIDE DEF lost
<1>4. \A c \in VaultCalls : ask'[c] \in Asks /\ AskOK(ask[c])'
  <2>1. \A c \in VaultCalls : ask'[c] \in {NoAsk, lost}
    BY <1>1
  <2>. QED  BY <1>3, <2>1, NoAskIs DEF AskOK
<1>5. VaultTypeOK'
  BY <1>1, <1>2, <1>3, NoAskIs DEF VaultInv, VaultTypeOK
<1>6. RowInv'
  BY <1>1 DEF VaultInv, RowInv, Held
<1>. QED  BY <1>4, <1>5, <1>6 DEF VaultInv

-----------------------------------------------------------------------------
\* Every step of the vault keeps its invariant.
LEMMA VaultStep ==
  VaultInv /\ [VaultNext]_vaultVars => VaultInv'
<1>. SUFFICES ASSUME VaultInv, [VaultNext]_vaultVars PROVE VaultInv'  OBVIOUS
<1>1. CASE UNCHANGED vaultVars
  <2>1. UNCHANGED <<creds, acl, made, stored, env, boot, ask>>
    BY <1>1 DEF vaultVars
  <2>2. VaultTypeOK'
    BY <2>1 DEF VaultInv, VaultTypeOK
  <2>3. RowInv'
    BY <2>1 DEF VaultInv, RowInv, Held
  <2>4. \A c \in VaultCalls : AskOK(ask[c])'
    BY <2>1 DEF VaultInv, AskOK, Held, Readable, About
  <2>. QED  BY <2>2, <2>3, <2>4 DEF VaultInv
<1>2. CASE \E score \in Scores : HydrateFromEnv(score)
  BY <1>2, HydrateFromEnvStep
<1>3. CASE GrantHydrated \/ Crash
  BY <1>3, GrantHydratedStep, CrashStep
<1>4. ASSUME NEW c \in VaultCalls,
             \/ Refuse(c) \/ InsertGrant(c) \/ Rotate(c) \/ DeleteCred(c)
             \/ CheckAcl(c) \/ FetchCipher(c) \/ SqlFails(c)
      PROVE  VaultInv'
  BY <1>4, RefuseStep, InsertGrantStep, RotateStep, DeleteCredStep, CheckAclStep, FetchCipherStep,
     SqlFailsStep
<1>5. ASSUME NEW c \in VaultCalls, NEW n \in CredNames, NEW score \in Scores, Create(c, n, score)
      PROVE  VaultInv'
  BY <1>5, CreateStep
<1>6. ASSUME NEW c \in VaultCalls, NEW j \in 1..made, ReadForRotate(c, j) \/ DeleteGrants(c, j)
      PROVE  VaultInv'
  BY <1>6, ReadForRotateStep, DeleteGrantsStep
<1>7. ASSUME NEW c \in VaultCalls, NEW j \in 1..made, NEW g \in Grantees,
             ReadForGrant(c, j, g) \/ Revoke(c, j, g)
      PROVE  VaultInv'
  BY <1>7, ReadForGrantStep, RevokeStep
<1>8. ASSUME NEW c \in VaultCalls, NEW a \in Actors,
             Resolve(c, a) \/ \E n \in CredNames : ResolveByName(c, a, n)
      PROVE  VaultInv'
  BY <1>8, LookStep DEF Resolve, ResolveByName
<1>. QED  BY <1>1, <1>2, <1>3, <1>4, <1>5, <1>6, <1>7, <1>8 DEF VaultNext

\* While a call resolves a credential, what it could read throughout is still to
\* be tried or less specific, whatever becomes of the rows.  (vault.go:535-573)
THEOREM VaultKeepsInv == VaultSpec => []VaultInv
  BY VaultInitInv, VaultStep, PTL DEF VaultSpec

\* Whatever is granted, revoked, rotated and deleted while a call resolves one:
\* the secret it gets is of the most specific credential its caller could read
\* throughout, or of one as specific, and a caller who gets none could read none
\* throughout (vault.go:535-573).
THEOREM SecretsAreAlwaysDue == VaultSpec => []SecretsAreDue
<1>1. VaultInv => SecretsAreDue
  BY DEF VaultInv, AskOK, SecretsAreDue
<1>. QED  BY <1>1, VaultKeepsInv, PTL

-----------------------------------------------------------------------------
(* Gateway: keys *)

\* Providers are numbers, and 0 is none.
LEMMA ProvidersAre == Providers \subseteq Nat \ {0} /\ MaxAttempts \in Nat \ {0}
<1>1. Candidates \in Seq(Nat \ {0}) /\ MaxAttempts \in Nat \ {0}
  BY GatewayAssumption
<1>2. \A i \in DOMAIN Candidates : Candidates[i] \in Nat \ {0}
  BY <1>1
<1>. QED  BY <1>1, <1>2 DEF Providers

\* The provider a request turns to next is one it has left.
LEMMA LeastIs ==
  ASSUME NEW S \in SUBSET Providers, S # {} PROVE Least(S) \in S
<1>1. S \subseteq Nat
  BY ProvidersAre
<1>2. \E x \in S : \A y \in S : x <= y
  BY <1>1, LeastExists
<1>. QED  BY <1>2 DEF Least

\* A provider with a key has a newest one, with a secret.
LEMMA NewestIs ==
  ASSUME secrets \in Nat, NEW table \in [KeyIds -> KeyRows], NEW p \in HasKey(table)
  PROVE  /\ NewestKey(table, p) \in KeyIds /\ table[NewestKey(table, p)] # NoKey
         /\ table[NewestKey(table, p)].secret \in 1..secrets
<1>1. p \in Nat /\ p # 0 /\ KeysOf(table, p) # {}
  BY ProvidersAre DEF HasKey
<1>2. \A k \in KeysOf(table, p) : /\ k \in KeyIds /\ table[k] # NoKey
                                  /\ table[k] \in [provider : Providers, born : 1..secrets, secret : 1..secrets]
  BY <1>1 DEF KeysOf, KeyRows, NoKey
<1>. DEFINE T == {table[k].born : k \in KeysOf(table, p)}
<1>3. T \subseteq 0..secrets /\ T # {}
  BY <1>1, <1>2
<1>4. PICK g \in T : \A y \in T : y <= g
  BY <1>3, GreatestExists
<1>5. \E k \in KeysOf(table, p) : \A j \in KeysOf(table, p) : table[j].born <= table[k].born
  BY <1>4
<1>6. NewestKey(table, p) \in KeysOf(table, p)
  BY <1>5 DEF NewestKey
<1>. QED  BY <1>2, <1>6

\* Boot registers the newest key of each provider.
LEMMA KeyInit == GatewayInit => KeyInv
<1>. SUFFICES ASSUME GatewayInit PROVE KeyInv  OBVIOUS
<1>1. /\ secrets = Cardinality(KeyIds) /\ hydrated = TRUE /\ change = [q \in KeyRequests |-> NoChange]
      /\ live = [p \in Providers |-> IF p \in HasKey(keys) THEN keys[NewestKey(keys, p)].secret ELSE 0]
  BY DEF GatewayInit
<1>2. secrets \in Nat
  BY <1>1, GatewayAssumption, FS_CardinalityType
<1>3. PICK f \in [KeyIds -> 1..secrets], p \in [KeyIds -> Providers \cup {0}] :
       /\ \A j, k \in KeyIds : f[j] = f[k] => j = k
       /\ keys = [k \in KeyIds |-> IF p[k] = 0 THEN NoKey
                                   ELSE [provider |-> p[k], born |-> f[k], secret |-> f[k]]]
  BY Zenon DEF GatewayInit
<1>4. keys \in [KeyIds -> KeyRows]
  <2>1. ASSUME NEW k \in KeyIds
        PROVE  (IF p[k] = 0 THEN NoKey
                ELSE [provider |-> p[k], born |-> f[k], secret |-> f[k]]) \in KeyRows
    BY DEF KeyRows
  <2>. QED  BY <1>3, <2>1
<1>5. \A r \in HasKey(keys) : live[r] \in Nat /\ live[r] = keys[NewestKey(keys, r)].secret
  <2>1. \A r \in HasKey(keys) : r \in Providers
    BY DEF HasKey
  <2>2. \A r \in HasKey(keys) : keys[NewestKey(keys, r)].secret \in Nat
    BY <1>2, <1>4, NewestIs
  <2>. QED  BY <1>1, <2>1, <2>2
<1>6. live \in [Providers -> Nat]
  <2>1. \A r \in Providers : (IF r \in HasKey(keys) THEN keys[NewestKey(keys, r)].secret ELSE 0) \in Nat
    BY <1>2, <1>4, NewestIs
  <2>. QED  BY <1>1, <2>1
<1>7. NoChange \in KeyTurns /\ NoChange.at = "none"
  <2>1. [k \in KeyIds |-> NoKey] \in [KeyIds -> KeyRows]
    BY DEF KeyRows
  <2>. QED  BY <2>1 DEF NoChange, KeyTurns
<1>8. KeyTypeOK
  BY <1>1, <1>2, <1>4, <1>6, <1>7 DEF KeyTypeOK
<1>9. \A q \in KeyRequests : change[q].at = "none"
  BY <1>1, <1>7
<1>10. Changing = {}
  BY <1>9 DEF Changing
<1>11. RequestInv
  BY <1>9, <1>10 DEF RequestInv
<1>. QED  BY <1>5, <1>8, <1>10, <1>11 DEF KeyInv, KeysAreLive

\* What the invariant says of the keys and of one key request.
LEMMA KeyFacts ==
  ASSUME KeyInv
  PROVE  /\ secrets \in Nat /\ keys \in [KeyIds -> KeyRows] /\ live \in [Providers -> Nat]
         /\ change \in [KeyRequests -> KeyTurns] /\ hydrated \in BOOLEAN
         /\ \A q \in KeyRequests : change[q] \in KeyTurns
         /\ hydrated => Changing = {}
         /\ Changing = {q \in KeyRequests : change[q].at \notin {"none", "over"}}
         /\ RequestInv /\ KeysAreLive
  BY DEF KeyInv, KeyTypeOK, Changing

\* Keys that are stored stay keys.
LEMMA KeyRowsGrow ==
  ASSUME secrets \in Nat, secrets' \in Nat, secrets <= secrets'
  PROVE  KeyRows \subseteq KeyRows' /\ KeyTurns \subseteq KeyTurns'
<1>1. 1..secrets \subseteq 1..secrets'
  OBVIOUS
<1>2. KeyRows \subseteq KeyRows'
  BY <1>1 DEF KeyRows
<1>. QED  BY <1>2 DEF KeyTurns

\* A statement that changes the table: no request is alone any more, but for the
\* one that made it, if no other is under way.
LEMMA ChangedStep ==
  ASSUME KeyInv, NEW q \in KeyRequests, NEW table, Changed(q, table),
         secrets' \in Nat, secrets <= secrets', table \in [KeyIds -> KeyRows']
  PROVE  KeyInv'
<1>. DEFINE a == (Changing = {})
            k == [NoChange EXCEPT !.at = "list", !.alone = a]
            Left(d) == [change[d] EXCEPT !.alone = FALSE]
<1>1. /\ keys' = table /\ hydrated' = FALSE /\ live' = live /\ change[q].at = "none"
      /\ change' = [d \in KeyRequests |-> IF d = q THEN k ELSE Left(d)]
  BY DEF Changed
<1>2. KeyRows \subseteq KeyRows' /\ KeyTurns \subseteq KeyTurns'
  BY KeyFacts, KeyRowsGrow
<1>3. k \in KeyTurns /\ k.at = "list" /\ k.alone = a
  <2>1. [i \in KeyIds |-> NoKey] \in [KeyIds -> KeyRows]
    BY DEF KeyRows
  <2>2. a \in BOOLEAN
    OBVIOUS
  <2>. HIDE DEF a
  <2>. QED  BY <2>1, <2>2 DEF NoChange, KeyTurns
<1>4. ASSUME NEW d \in KeyRequests
      PROVE  /\ Left(d) \in KeyTurns /\ Left(d).at = change[d].at /\ Left(d).alone = FALSE
             /\ Left(d).left = change[d].left /\ Left(d).listed = change[d].listed
  BY KeyFacts DEF KeyTurns
<1>. HIDE DEF k, Left
<1>5. /\ change'[q] = k
      /\ \A d \in KeyRequests : d # q => change'[d] = Left(d)
  BY <1>1
<1>6. KeyTypeOK'
  <2>1. \A d \in KeyRequests : (IF d = q THEN k ELSE Left(d)) \in KeyTurns'
    BY <1>2, <1>3, <1>4
  <2>2. change' \in [KeyRequests -> KeyTurns']
    BY <1>1, <2>1
  <2>. QED  BY <1>1, <2>2, KeyFacts DEF KeyTypeOK
<1>7. Changing' = Changing \cup {q}
  <2>1. \A d \in KeyRequests : d \in Changing' <=> d \in Changing \cup {q}
    BY <1>3, <1>4, <1>5 DEF Changing
  <2>. QED  BY <2>1 DEF Changing
<1>8. RequestInv'
  <2>1. SUFFICES ASSUME NEW d \in KeyRequests
        PROVE  LET l == change'[d] IN
               /\ l.at \in {"decrypt", "register"} => l.left # {} /\ l.left \subseteq HasKey(l.listed)
               /\ l.alone /\ d \in Changing' =>
                    /\ Changing' = {d}
                    /\ l.at = "list"
    BY DEF RequestInv
  <2>2. CASE d = q
    BY <1>3, <1>5, <1>7, <2>2
  <2>3. CASE d # q
    <3>1. change'[d] = Left(d)
      BY <1>5, <2>3
    <3>2. change[d].at \in {"decrypt", "register"} =>
            change[d].left # {} /\ change[d].left \subseteq HasKey(change[d].listed)
      BY KeyFacts DEF RequestInv
    <3>. QED  BY <1>4, <3>1, <3>2
  <2>. QED  BY <2>2, <2>3
<1>. QED  BY <1>1, <1>6, <1>8 DEF KeyInv, KeysAreLive

\* A created key is the newest.
LEMMA CreateKeyStep ==
  ASSUME KeyInv, NEW q \in KeyRequests, NEW k \in KeyIds, NEW p \in Providers, CreateKey(q, k, p)
  PROVE  KeyInv'
<1>. DEFINE row == [provider |-> p, born |-> secrets', secret |-> secrets']
            table == [keys EXCEPT ![k] = row]
<1>1. secrets' = secrets + 1 /\ Changed(q, table)
  BY DEF CreateKey
<1>2. secrets' \in Nat /\ secrets <= secrets' /\ secrets' \in 1..secrets'
  BY <1>1, KeyFacts
<1>3. row \in KeyRows'
  BY <1>2 DEF KeyRows
<1>4. table \in [KeyIds -> KeyRows']
  BY <1>2, <1>3, KeyFacts, KeyRowsGrow
<1>. HIDE DEF table
<1>. QED  BY <1>1, <1>2, <1>4, ChangedStep

\* A rotated key keeps its place in the order.
LEMMA RotateKeyStep ==
  ASSUME KeyInv, NEW q \in KeyRequests, NEW k \in KeyIds, RotateKey(q, k)
  PROVE  KeyInv'
<1>. DEFINE row == [keys[k] EXCEPT !.secret = secrets']
            table == [keys EXCEPT ![k] = row]
<1>1. secrets' = secrets + 1 /\ keys[k] # NoKey /\ Changed(q, [keys EXCEPT ![k].secret = secrets'])
  BY DEF RotateKey
<1>2. secrets' \in Nat /\ secrets <= secrets' /\ secrets' \in 1..secrets' /\ 1..secrets \subseteq 1..secrets'
  BY <1>1, KeyFacts
<1>3. row \in KeyRows'
  <2>1. keys[k] \in [provider : Providers, born : 1..secrets, secret : 1..secrets]
    BY <1>1, KeyFacts DEF KeyRows
  <2>2. row \in [provider : Providers, born : 1..secrets', secret : 1..secrets']
    BY <1>2, <2>1
  <2>. QED  BY <2>2 DEF KeyRows
<1>4. table \in [KeyIds -> KeyRows']
  BY <1>2, <1>3, KeyFacts, KeyRowsGrow
<1>5. Changed(q, table)
  BY <1>1, KeyFacts
<1>. HIDE DEF table
<1>. QED  BY <1>2, <1>4, <1>5, ChangedStep

\* A deleted key leaves the rest.
LEMMA DeleteKeyStep ==
  ASSUME KeyInv, NEW q \in KeyRequests, NEW k \in KeyIds, DeleteKey(q, k)
  PROVE  KeyInv'
<1>. DEFINE table == [keys EXCEPT ![k] = NoKey]
<1>1. secrets' = secrets /\ Changed(q, table)
  BY DEF DeleteKey
<1>2. secrets' \in Nat /\ secrets <= secrets'
  BY <1>1, KeyFacts
<1>3. NoKey \in KeyRows'
  BY DEF KeyRows
<1>4. table \in [KeyIds -> KeyRows']
  BY <1>2, <1>3, KeyFacts, KeyRowsGrow
<1>. HIDE DEF table
<1>. QED  BY <1>1, <1>2, <1>4, ChangedStep

\* A step of a request q that leaves the table alone: another that is alone
\* would be the only one.
LEMMA OthersAreNotAlone ==
  ASSUME KeyInv, NEW q \in Changing, NEW d \in Changing, d # q PROVE ~change[d].alone
  BY DEF KeyInv, RequestInv, Changing

\* Such a step keeps the invariant when it keeps what it says of q.
LEMMA RequestStep ==
  ASSUME KeyInv, NEW q \in Changing, NEW n \in KeyTurns, change' = [change EXCEPT ![q] = n],
         UNCHANGED <<keys, secrets>>, live' \in [Providers -> Nat], hydrated' \in BOOLEAN, n.at # "none",
         n.alone => change[q].alone,
         n.at \in {"decrypt", "register"} => n.left # {} /\ n.left \subseteq HasKey(n.listed),
         n.alone /\ n.at \in {"decrypt", "register"} =>
           n.listed = keys /\ \A p \in HasKey(keys) \ n.left : live'[p] = keys[NewestKey(keys, p)].secret,
         n.alone /\ n.at = "register" => n.secret # 0 /\ n.secret = keys[NewestKey(keys, Least(n.left))].secret,
         hydrated' => /\ n.alone /\ n.at = "over"
                      /\ \A p \in HasKey(keys) : live'[p] = keys[NewestKey(keys, p)].secret
  PROVE  KeyInv'
<1>1. KeyRows' = KeyRows /\ KeyTurns' = KeyTurns
  BY DEF KeyRows, KeyTurns
<1>2. q \in KeyRequests /\ \A d \in KeyRequests : change'[d] = IF d = q THEN n ELSE change[d]
  BY KeyFacts
<1>3. KeyTypeOK'
  BY <1>1, <1>2, KeyFacts DEF KeyTypeOK
<1>4. /\ Changing' \subseteq Changing /\ (q \in Changing' <=> n.at # "over")
      /\ \A d \in Changing : d # q => d \in Changing'
  BY <1>2 DEF Changing
<1>5. change[q].alone => Changing = {q}
  BY KeyFacts DEF RequestInv
<1>6. RequestInv'
  <2>1. SUFFICES ASSUME NEW d \in KeyRequests
        PROVE  LET l == change'[d] IN
               /\ l.at \in {"decrypt", "register"} => l.left # {} /\ l.left \subseteq HasKey(l.listed)
               /\ l.alone /\ d \in Changing' =>
                    /\ Changing' = {d}
                    /\ l.at \in {"decrypt", "register"} =>
                         l.listed = keys
                         /\ \A p \in HasKey(keys) \ l.left : live'[p] = keys[NewestKey(keys, p)].secret
                    /\ l.at = "register" => /\ l.secret # 0
                                            /\ l.secret = keys[NewestKey(keys, Least(l.left))].secret
    BY DEF RequestInv, Live
  <2>2. CASE d = q
    BY <1>2, <1>4, <1>5, <2>2
  <2>3. CASE d # q
    <3>1. change'[d] = change[d]
      BY <1>2, <2>3
    <3>2. change[d].at \in {"decrypt", "register"} => change[d].left # {} /\ change[d].left \subseteq HasKey(change[d].listed)
      BY KeyFacts DEF RequestInv
    <3>3. ~(change[d].alone /\ d \in Changing')
      BY <1>4, <2>3, OthersAreNotAlone
    <3>. QED  BY <3>1, <3>2, <3>3
  <2>. QED  BY <2>2, <2>3
<1>7. hydrated' => Changing' = {}
  BY <1>4, <1>5
<1>8. KeysAreLive'
  BY DEF KeysAreLive
<1>. QED  BY <1>3, <1>6, <1>7, <1>8 DEF KeyInv

\* A request lists the keys that are there.
LEMMA ListKeysStep ==
  ASSUME KeyInv, NEW q \in KeyRequests, ListKeys(q) PROVE KeyInv'
<1>. DEFINE k == change[q]
            at == IF HasKey(keys) = {} THEN "over" ELSE "decrypt"
            n == [k EXCEPT !.at = at, !.listed = keys, !.left = HasKey(keys)]
<1>1. /\ k.at = "list" /\ UNCHANGED <<keys, secrets, live>>
      /\ hydrated' = (HasKey(keys) = {} /\ k.alone)
      /\ change' = [change EXCEPT ![q].at = at, ![q].listed = keys, ![q].left = HasKey(keys)]
  BY DEF ListKeys
<1>2. k \in KeyTurns /\ q \in Changing
  BY <1>1, KeyFacts DEF Changing
<1>3. change' = [change EXCEPT ![q] = n]
  BY <1>1, <1>2, KeyFacts DEF KeyTurns
<1>4. HasKey(keys) \subseteq Providers
  BY DEF HasKey
<1>5. n \in KeyTurns /\ n.at = at /\ n.listed = keys /\ n.left = HasKey(keys) /\ n.alone = k.alone
  BY <1>2, <1>4, KeyFacts DEF KeyTurns
<1>. HIDE DEF n
<1>6. k.alone \in BOOLEAN
  BY <1>2 DEF KeyTurns
<1>7. hydrated' \in BOOLEAN /\ (hydrated' => HasKey(keys) = {} /\ k.alone)
  BY <1>1, <1>6
<1>8. live' \in [Providers -> Nat]
  BY <1>1, KeyFacts
<1>9. n.at # "none" /\ n.at # "register" /\ (HasKey(keys) = {} <=> n.at = "over")
  BY <1>5
<1>10. n.alone /\ n.at \in {"decrypt", "register"} =>
         n.listed = keys /\ \A p \in HasKey(keys) \ n.left : live'[p] = keys[NewestKey(keys, p)].secret
  BY <1>5
<1>11. hydrated' => /\ n.alone /\ n.at = "over"
                    /\ \A p \in HasKey(keys) : live'[p] = keys[NewestKey(keys, p)].secret
  BY <1>5, <1>7
<1>12. n.at \in {"decrypt", "register"} => n.left # {} /\ n.left \subseteq HasKey(n.listed)
  BY <1>5
<1>. HIDE DEF at
<1>. QED  BY <1>1, <1>2, <1>3, <1>5, <1>7, <1>8, <1>9, <1>10, <1>11, <1>12, RequestStep

\* A row that is listed is read again, and may have gone.
LEMMA DecryptStep ==
  ASSUME KeyInv, NEW q \in KeyRequests, Decrypt(q) PROVE KeyInv'
<1>. DEFINE c == change[q]
            p == Least(c.left)
            k == NewestKey(c.listed, p)
<1>1. c.at = "decrypt" /\ UNCHANGED <<keys, secrets, live, hydrated>>
  BY DEF Decrypt
<1>2. c \in KeyTurns /\ q \in Changing /\ ~hydrated
  BY <1>1, KeyFacts DEF Changing
<1>3. /\ c.left # {} /\ c.left \subseteq HasKey(c.listed)
      /\ c.alone => c.listed = keys /\ \A r \in HasKey(keys) \ c.left : Live(r)
  BY <1>1, <1>2, KeyFacts DEF RequestInv
<1>4. p \in c.left
  BY <1>2, <1>3, LeastIs DEF KeyTurns
<1>5. k \in KeyIds /\ c.listed[k] # NoKey /\ c.listed[k].secret \in 1..secrets
  BY <1>2, <1>3, <1>4, NewestIs, KeyFacts DEF KeyTurns
<1>. HIDE DEF p, k
<1>6. CASE /\ keys[k] # NoKey
           /\ change' = [change EXCEPT ![q].at = "register", ![q].secret = keys[k].secret]
  <2>. DEFINE s == keys[k].secret
              n == [c EXCEPT !.at = "register", !.secret = s]
  <2>1. s \in Nat /\ s # 0
    BY <1>5, <1>6, KeyFacts DEF KeyRows
  <2>2. change' = [change EXCEPT ![q] = n]
    BY <1>2, <1>6, KeyFacts DEF KeyTurns
  <2>3. /\ n \in KeyTurns /\ n.at = "register" /\ n.secret = s /\ n.left = c.left /\ n.listed = c.listed
        /\ n.alone = c.alone
    BY <1>2, <2>1 DEF KeyTurns
  <2>. HIDE DEF n
  <2>4. c.alone => s = keys[NewestKey(keys, Least(c.left))].secret
    BY <1>3 DEF k, p
  <2>5. live' \in [Providers -> Nat] /\ hydrated' \in BOOLEAN /\ ~hydrated'
    BY <1>1, <1>2, KeyFacts
  <2>6. c.alone => \A r \in HasKey(keys) \ c.left : live'[r] = keys[NewestKey(keys, r)].secret
    BY <1>1, <1>3 DEF Live
  <2>. HIDE DEF s
  <2>. QED  BY <1>1, <1>2, <1>3, <2>1, <2>2, <2>3, <2>4, <2>5, <2>6, RequestStep
<1>7. CASE change' = [change EXCEPT ![q].at = "register", ![q].secret = 0, ![q].alone = FALSE]
  <2>. DEFINE n == [c EXCEPT !.at = "register", !.secret = 0, !.alone = FALSE]
  <2>1. change' = [change EXCEPT ![q] = n]
    BY <1>2, <1>7, KeyFacts DEF KeyTurns
  <2>2. n \in KeyTurns /\ n.at = "register" /\ n.left = c.left /\ n.listed = c.listed /\ ~n.alone
    BY <1>2 DEF KeyTurns
  <2>. HIDE DEF n
  <2>3. live' \in [Providers -> Nat] /\ hydrated' \in BOOLEAN /\ ~hydrated'
    BY <1>1, <1>2, KeyFacts
  <2>. QED  BY <1>1, <1>2, <1>3, <2>1, <2>2, <2>3, RequestStep
<1>. QED  BY <1>6, <1>7 DEF Decrypt, k, p

\* A registered provider is one less to do.
LEMMA RegisterProviderStep ==
  ASSUME KeyInv, NEW q \in KeyRequests, RegisterProvider(q) PROVE KeyInv'
<1>. DEFINE c == change[q]
            p == Least(c.left)
            at == IF c.left = {p} THEN "over" ELSE "decrypt"
            n == [c EXCEPT !.left = @ \ {p}, !.at = at]
<1>1. /\ c.at = "register" /\ UNCHANGED <<keys, secrets>>
      /\ live' = IF c.secret = 0 THEN live ELSE [live EXCEPT ![p] = c.secret]
      /\ change' = [change EXCEPT ![q].left = @ \ {p}, ![q].at = at]
      /\ hydrated' = (c.left = {p} /\ c.alone)
  BY DEF RegisterProvider
<1>2. c \in KeyTurns /\ q \in Changing
  BY <1>1, KeyFacts DEF Changing
<1>3. /\ c.left # {} /\ c.left \subseteq HasKey(c.listed)
      /\ c.alone => /\ c.listed = keys /\ c.secret # 0 /\ c.secret = keys[NewestKey(keys, p)].secret
                    /\ \A r \in HasKey(keys) \ c.left : live[r] = keys[NewestKey(keys, r)].secret
  BY <1>1, <1>2, KeyFacts DEF RequestInv, Live
<1>4. p \in c.left /\ p \in Providers
  BY <1>2, <1>3, LeastIs DEF KeyTurns
<1>5. change' = [change EXCEPT ![q] = n]
  BY <1>1, <1>2, KeyFacts DEF KeyTurns
<1>. HIDE DEF p
<1>6. /\ n \in KeyTurns /\ n.at = at /\ n.left = c.left \ {p} /\ n.listed = c.listed
      /\ n.alone = c.alone
  BY <1>2 DEF KeyTurns
<1>. HIDE DEF n
<1>7. live' \in [Providers -> Nat]
  BY <1>1, <1>2, <1>4, KeyFacts DEF KeyTurns
<1>8. c.alone => \A r \in HasKey(keys) \ n.left : live'[r] = keys[NewestKey(keys, r)].secret
  <2>1. SUFFICES ASSUME c.alone, NEW r \in HasKey(keys), r \notin n.left
        PROVE  live'[r] = keys[NewestKey(keys, r)].secret
    OBVIOUS
  <2>2. r \in Providers /\ c.secret # 0 /\ live' = [live EXCEPT ![p] = c.secret]
    BY <1>1, <1>3, <2>1 DEF HasKey
  <2>3. CASE r = p
    BY <1>3, <2>1, <2>2, <2>3, KeyFacts
  <2>4. CASE r # p
    BY <1>3, <1>6, <2>1, <2>2, <2>4, KeyFacts
  <2>. QED  BY <2>3, <2>4
<1>9. c.alone \in BOOLEAN
  BY <1>2 DEF KeyTurns
<1>10. hydrated' \in BOOLEAN /\ (hydrated' => c.alone /\ n.left = {} /\ n.at = "over")
  BY <1>1, <1>6, <1>9
<1>11. n.at # "none" /\ n.at # "register" /\ (n.at = "decrypt" => n.left # {})
  BY <1>4, <1>6
<1>12. n.left \subseteq HasKey(n.listed)
  BY <1>3, <1>6
<1>13. n.alone => n.listed = keys
  BY <1>3, <1>6
<1>14. hydrated' => \A r \in HasKey(keys) : live'[r] = keys[NewestKey(keys, r)].secret
  BY <1>8, <1>10
<1>15. n.alone => change[q].alone
  BY <1>6
<1>. HIDE DEF at
<1>. QED  BY <1>1, <1>2, <1>5, <1>6, <1>7, <1>8, <1>10, <1>11, <1>12, <1>13, <1>14, <1>15, RequestStep

\* Every step of a key request keeps the invariant of the keys.
LEMMA KeyInvStep ==
  ASSUME KeyInv, NEW q \in KeyRequests, KeyStep(q) PROVE KeyInv'
<1>1. CASE \E k \in KeyIds, p \in Providers : CreateKey(q, k, p)
  BY <1>1, CreateKeyStep
<1>2. CASE \E k \in KeyIds : RotateKey(q, k) \/ DeleteKey(q, k)
  BY <1>2, RotateKeyStep, DeleteKeyStep
<1>3. CASE ListKeys(q) \/ Decrypt(q) \/ RegisterProvider(q)
  BY <1>3, ListKeysStep, DecryptStep, RegisterProviderStep
<1>. QED  BY <1>1, <1>2, <1>3 DEF KeyStep

-----------------------------------------------------------------------------
(* Gateway: chat calls *)

\* What a log with one more ask is.
LEMMA AppendIs ==
  ASSUME NEW log \in Seq(Entered), NEW e \in Entered
  PROVE  /\ Append(log, e) \in Seq(Entered) /\ Len(log) \in Nat /\ Len(Append(log, e)) = Len(log) + 1
         /\ DOMAIN log = 1..Len(log) /\ DOMAIN Append(log, e) = (DOMAIN log) \cup {Len(log) + 1}
         /\ \A j \in DOMAIN log : Append(log, e)[j] = log[j]
         /\ Append(log, e)[Len(log) + 1] = e
         /\ Len(log) + 1 \notin DOMAIN log
<1>1. /\ Append(log, e) \in Seq(Entered) /\ Len(log) \in Nat /\ Len(Append(log, e)) = Len(log) + 1
      /\ DOMAIN log = 1..Len(log) /\ DOMAIN Append(log, e) = 1..(Len(log) + 1)
  OBVIOUS
<1>2. 1..(Len(log) + 1) = (1..Len(log)) \cup {Len(log) + 1} /\ Len(log) + 1 \notin 1..Len(log)
  BY <1>1
<1>3. /\ \A j \in DOMAIN log : Append(log, e)[j] = log[j]
      /\ Append(log, e)[Len(log) + 1] = e
  BY <1>1
<1>. QED  BY <1>1, <1>2, <1>3

\* What is counted of a log is finite.
LEMMA LogIsFinite ==
  ASSUME NEW k \in Calls
  PROVE  /\ k.log \in Seq(Entered) /\ Len(k.log) \in Nat /\ DOMAIN k.log = 1..Len(k.log)
         /\ Reached(k) \subseteq Nat /\ IsFiniteSet(Reached(k)) /\ Cardinality(Reached(k)) \in Nat
         /\ \A i : IsFiniteSet(AskedAt(k, i)) /\ Cardinality(AskedAt(k, i)) \in Nat
<1>1. k.log \in Seq(Entered) /\ Len(k.log) \in Nat /\ DOMAIN k.log = 1..Len(k.log)
  BY DEF Calls
<1>2. IsFiniteSet(DOMAIN k.log)
  BY <1>1, FS_Interval
<1>3. [j \in DOMAIN k.log |-> k.log[j].i] \in Surjection(DOMAIN k.log, Reached(k))
  BY DEF Surjection, Reached
<1>4. IsFiniteSet(Reached(k))
  BY <1>2, <1>3, FS_Surjection
<1>5. \A i : AskedAt(k, i) \subseteq DOMAIN k.log
  BY DEF AskedAt
<1>6. \A i : IsFiniteSet(AskedAt(k, i))
  BY <1>2, <1>5, FS_Subset
<1>7. Reached(k) \subseteq Nat
  <2>1. \A j \in DOMAIN k.log : k.log[j] \in Entered
    BY <1>1
  <2>2. DOMAIN Candidates \subseteq Nat
    BY GatewayAssumption
  <2>. QED  BY <2>1, <2>2 DEF Reached, Entered
<1>. QED  BY <1>1, <1>4, <1>6, <1>7, FS_CardinalityType

\* A step of one call.
LEMMA CallStep ==
  ASSUME ChatInv, NEW c \in Chats, NEW n \in Calls, To(c, n), LogInv(n), NowInv(n), n.at # "none"
  PROVE  ChatInv'
<1>1. chat' = [chat EXCEPT ![c] = n] /\ rule' = rule /\ chat \in [Chats -> Calls]
  BY DEF To, ChatInv
<1>2. chat' \in [Chats -> Calls]
  BY <1>1
<1>3. \A d \in Chats : chat'[d] = IF d = c THEN n ELSE chat[d]
  BY <1>1
<1>4. ASSUME NEW d \in Chats
      PROVE  LogInv(chat[d])' /\ NowInv(chat[d])' /\ (chat'[d].at = "none" => chat'[d] = NoChat)
  <2>1. CASE d = c
    <3>1. chat'[d] = n
      BY <1>3, <2>1
    <3>2. LogInv(chat[d])'
      BY <1>1, <3>1 DEF LogInv
    <3>3. NowInv(chat[d])'
      BY <1>1, <3>1 DEF NowInv
    <3>. QED  BY <3>1, <3>2, <3>3
  <2>2. CASE d # c
    <3>1. chat'[d] = chat[d] /\ LogInv(chat[d]) /\ NowInv(chat[d]) /\ (chat[d].at = "none" => chat[d] = NoChat)
      BY <1>3, <2>2 DEF ChatInv
    <3>. QED  BY <1>1, <3>1, ZenonT(30) DEF LogInv, NowInv
  <2>. QED  BY <2>1, <2>2
<1>. QED  BY <1>2, <1>4 DEF ChatInv

\* What the invariant says of one call.
LEMMA ChatFacts ==
  ASSUME ChatInv, NEW c \in Chats
  PROVE  /\ chat[c] \in Calls /\ LogInv(chat[c]) /\ NowInv(chat[c])
         /\ chat[c].at = "none" => chat[c] = NoChat
  BY DEF ChatInv

\* A step that asks nobody leaves the log, and what it says, alone.
LEMMA SameLog ==
  ASSUME NEW k \in Calls, NEW n \in Calls, LogInv(k), n.log = k.log, n.rows = k.rows
  PROVE  /\ LogInv(n) /\ Reached(n) = Reached(k) /\ \A i : AskedAt(n, i) = AskedAt(k, i)
<1>1. Reached(n) = Reached(k) /\ \A i : AskedAt(n, i) = AskedAt(k, i)
  BY DEF Reached, AskedAt
<1>. QED  BY <1>1 DEF LogInv

\* A call that has not begun has asked nobody.
LEMMA NoChatIs ==
  /\ NoChat \in Calls /\ LogInv(NoChat) /\ Cardinality({}) = 0
  /\ NoChat.log = <<>> /\ NoChat.rows = 0 /\ NoChat.at = "none" /\ NoChat.ctx = "live"
  /\ Reached(NoChat) = {}
<1>1. Cardinality({}) = 0 /\ MaxAttempts \in Nat
  BY FS_EmptySet, ProvidersAre
<1>2. <<>> \in Seq(Entered) /\ DOMAIN <<>> = {}
  OBVIOUS
<1>3. NoChat \in Calls
  BY <1>2 DEF NoChat, Calls, ChatPlaces
<1>4. NoChat.log = <<>> /\ NoChat.rows = 0 /\ NoChat.at = "none" /\ NoChat.ctx = "live"
  BY DEF NoChat
<1>5. Reached(NoChat) = {} /\ \A i : AskedAt(NoChat, i) = {}
  BY <1>2, <1>4 DEF Reached, AskedAt
<1>6. LogInv(NoChat)
  <2>1. DOMAIN NoChat.log = {}
    BY <1>2, <1>4
  <2>2. \A i : Cardinality(AskedAt(NoChat, i)) <= MaxAttempts
    BY <1>1, <1>5
  <2>3. NoChat.rows <= Cardinality(Reached(NoChat))
    BY <1>1, <1>4, <1>5
  <2>. QED  BY <2>1, <2>2, <2>3 DEF LogInv
<1>. QED  BY <1>1, <1>3, <1>4, <1>5, <1>6

\* No call has begun.
LEMMA ChatInit == GatewayInit => ChatInv
<1>. SUFFICES ASSUME GatewayInit PROVE ChatInv  OBVIOUS
<1>1. chat = [c \in Chats |-> NoChat]
  BY DEF GatewayInit
<1>2. NowInv(NoChat)
  BY NoChatIs DEF NowInv, Open
<1>. QED  BY <1>1, <1>2, NoChatIs DEF ChatInv

\* A call begins with the first candidate, or is refused.
LEMMA SubmitStep ==
  ASSUME ChatInv, NEW c \in Chats, Submit(c) PROVE ChatInv'
<1>. DEFINE k == [NoChat EXCEPT !.at = "refused"]
            l == [NoChat EXCEPT !.at = "next", !.i = 1]
<1>1. chat[c] = NoChat
  BY ChatFacts DEF Submit
<1>2. 1 \in DOMAIN Candidates
  BY GatewayAssumption
<1>3. k \in Calls /\ k.at = "refused" /\ k.log = NoChat.log /\ k.rows = NoChat.rows
  BY NoChatIs DEF Calls, ChatPlaces
<1>4. l \in Calls /\ l.at = "next" /\ l.log = NoChat.log /\ l.rows = NoChat.rows /\ l.i = 1
  BY NoChatIs DEF Calls, ChatPlaces
<1>5. To(c, k) \/ To(c, l)
  BY <1>1 DEF Submit
<1>. HIDE DEF k, l
<1>6. LogInv(k) /\ LogInv(l) /\ Reached(l) = {}
  BY <1>3, <1>4, NoChatIs, SameLog
<1>7. NowInv(k)
  BY <1>3 DEF NowInv, Open
<1>8. NowInv(l)
  <2>1. DOMAIN l.log = {} /\ Len(l.log) = 0 /\ Cardinality(Reached(l) \ {l.i}) = 0 /\ l.rows = 0
    BY <1>4, <1>6, NoChatIs
  <2>. QED  BY <1>2, <1>4, <2>1 DEF NowInv
<1>. QED  BY <1>3, <1>4, <1>5, <1>6, <1>7, <1>8, CallStep

\* A dead context says nothing of the asks so far.
LEMMA CtxEndsStep ==
  ASSUME ChatInv, NEW c \in Chats, NEW why \in {"gone", "deadline"}, CtxEnds(c, why) PROVE ChatInv'
<1>. DEFINE k == chat[c]
            n == [k EXCEPT !.ctx = why]
<1>1. k \in Calls /\ LogInv(k) /\ NowInv(k)
  BY ChatFacts
<1>2. /\ n \in Calls /\ n.at = k.at /\ n.i = k.i /\ n.tries = k.tries /\ n.secret = k.secret /\ n.last = k.last
      /\ n.ctx = why /\ n.log = k.log /\ n.rows = k.rows
  BY <1>1 DEF Calls
<1>3. To(c, n) /\ k.at # "none"
  BY DEF CtxEnds
<1>. HIDE DEF n, k
<1>4. LogInv(n) /\ Reached(n) = Reached(k) /\ \A i : AskedAt(n, i) = AskedAt(k, i)
  BY <1>1, <1>2, SameLog
<1>5. NowInv(n)
  BY <1>1, <1>2, <1>4 DEF NowInv
<1>. QED  BY <1>2, <1>3, <1>4, <1>5, CallStep

\* What the invariant says of an open call, in parts.
LEMMA OpenIs ==
  ASSUME NEW k \in Calls, NowInv(k), k.at \in Open
  PROVE  /\ k.i \in DOMAIN Candidates /\ k.i \in Nat
         /\ \A j \in DOMAIN k.log : k.log[j].i <= k.i /\ (k.at = "next" => k.log[j].i # k.i)
         /\ k.at \in {"ask", "backoff"} =>
              /\ k.tries < MaxAttempts /\ Cardinality(AskedAt(k, k.i)) <= k.tries
              /\ Len(k.log) # 0 /\ k.log[Len(k.log)].i = k.i =>
                   k.log[Len(k.log)].answer \in Transient /\ k.log[Len(k.log)].secret = k.secret
         /\ k.at = "row" /\ k.ctx = "live" =>
              Len(k.log) # 0 /\ k.log[Len(k.log)].i = k.i /\ k.log[Len(k.log)].answer = k.last
         /\ k.ctx = "live" /\ Len(k.log) # 0 /\ k.log[Len(k.log)].i # k.i =>
              /\ rule.chained /\ k.log[Len(k.log)].answer # "ok"
              /\ rule.triggers = {} \/ Trigger(k.log[Len(k.log)].answer) \in rule.triggers
         /\ k.rows <= Cardinality(Reached(k) \ {k.i})
  BY DEF NowInv, Calls

\* A call that is over has only its log to answer for.
LEMMA OverStep ==
  ASSUME ChatInv, NEW c \in Chats, NEW n \in Calls, To(c, n), LogInv(n), n.at = "over"
  PROVE  ChatInv'
<1>1. NowInv(n)
  BY DEF NowInv, Open
<1>. QED  BY <1>1, CallStep

\* The next candidate has been asked nothing.
LEMMA NextStep ==
  ASSUME ChatInv, NEW c \in Chats, NEW k \in Calls, k.i = chat[c].i, chat[c].at \in Open,
         k.log = chat[c].log, LogInv(k), NEW last, GoesOn(c, last), k.rows <= Cardinality(Reached(k)),
         k.ctx = "live" /\ Len(k.log) # 0 =>
           /\ rule.chained /\ k.log[Len(k.log)].answer # "ok"
           /\ rule.triggers = {} \/ Trigger(k.log[Len(k.log)].answer) \in rule.triggers,
         To(c, [k EXCEPT !.at = "next", !.i = chat[c].i + 1])
  PROVE  ChatInv'
<1>. DEFINE n == [k EXCEPT !.at = "next", !.i = chat[c].i + 1]
<1>1. chat[c] \in Calls /\ NowInv(chat[c])
  BY ChatFacts
<1>2. /\ chat[c].i \in Nat /\ chat[c].i < Len(Candidates)
      /\ \A j \in DOMAIN k.log : k.log[j].i <= k.i
  BY <1>1, OpenIs DEF GoesOn
<1>3. /\ n \in Calls /\ n.at = "next" /\ n.i = k.i + 1 /\ n.ctx = k.ctx /\ n.log = k.log /\ n.rows = k.rows
  <2>. DEFINE i == chat[c].i + 1
  <2>1. i \in Nat /\ i = k.i + 1
    BY <1>2
  <2>. HIDE DEF i
  <2>2. /\ [k EXCEPT !.at = "next", !.i = i] \in Calls
        /\ [k EXCEPT !.at = "next", !.i = i].at = "next" /\ [k EXCEPT !.at = "next", !.i = i].i = i
        /\ [k EXCEPT !.at = "next", !.i = i].ctx = k.ctx /\ [k EXCEPT !.at = "next", !.i = i].log = k.log
        /\ [k EXCEPT !.at = "next", !.i = i].rows = k.rows
    BY <2>1 DEF Calls, ChatPlaces
  <2>. QED  BY <2>1, <2>2 DEF i
<1>4. To(c, n)
  OBVIOUS
<1>. HIDE DEF n
<1>5. n.i \in DOMAIN Candidates
  BY <1>2, <1>3, GatewayAssumption
<1>6. LogInv(n) /\ Reached(n) = Reached(k)
  BY <1>3, SameLog
<1>7. \A j \in DOMAIN n.log : n.log[j].i \in Nat /\ n.log[j].i <= n.i /\ n.log[j].i # n.i
  <2>1. \A j \in DOMAIN n.log : n.log[j].i \in Nat /\ n.log[j].i <= k.i
    BY <1>2, <1>3, LogIsFinite DEF Reached
  <2>. QED  BY <1>2, <1>3, <2>1
<1>8. n.i \notin Reached(n)
  BY <1>7 DEF Reached
<1>9. Reached(n) \ {n.i} = Reached(k)
  BY <1>6, <1>8
<1>10. NowInv(n)
  BY <1>3, <1>5, <1>7, <1>9 DEF NowInv
<1>. QED  BY <1>3, <1>4, <1>6, <1>10, CallStep

\* What fails goes on to the next candidate, or the call is over.
LEMMA FailedStep ==
  ASSUME ChatInv, NEW c \in Chats, NEW k \in Calls, k.i = chat[c].i, chat[c].at \in Open,
         k.log = chat[c].log, LogInv(k), NEW last, k.rows <= Cardinality(Reached(k)),
         GoesOn(c, last) /\ k.ctx = "live" /\ Len(k.log) # 0 =>
           /\ rule.chained /\ k.log[Len(k.log)].answer # "ok"
           /\ rule.triggers = {} \/ Trigger(k.log[Len(k.log)].answer) \in rule.triggers,
         To(c, Failed(c, k, last))
  PROVE  ChatInv'
<1>1. CASE GoesOn(c, last)
  BY <1>1, NextStep DEF Failed
<1>2. CASE ~GoesOn(c, last)
  <2>. DEFINE n == [k EXCEPT !.at = "over"]
  <2>1. n \in Calls /\ n.at = "over" /\ n.log = k.log /\ n.rows = k.rows
    BY DEF Calls, ChatPlaces
  <2>2. To(c, n)
    BY <1>2 DEF Failed
  <2>. HIDE DEF n
  <2>3. LogInv(n)
    BY <2>1, SameLog
  <2>. QED  BY <2>1, <2>2, <2>3, OverStep
<1>. QED  BY <1>1, <1>2

\* A call may have written a row for each candidate asked, but the one asked now.
LEMMA RowsAreFewer ==
  ASSUME NEW k \in Calls, NEW i
  PROVE  /\ Cardinality(Reached(k) \ {i}) \in Nat /\ Cardinality(Reached(k) \ {i}) <= Cardinality(Reached(k))
         /\ i \in Reached(k) => Cardinality(Reached(k) \ {i}) + 1 = Cardinality(Reached(k))
<1>1. IsFiniteSet(Reached(k)) /\ Cardinality(Reached(k)) \in Nat
  BY LogIsFinite
<1>2. IsFiniteSet(Reached(k) \ {i}) /\ Cardinality(Reached(k) \ {i}) \in Nat
      /\ Cardinality(Reached(k) \ {i}) <= Cardinality(Reached(k))
  BY <1>1, FS_Subset, FS_CardinalityType
<1>3. i \in Reached(k) => Cardinality(Reached(k) \ {i}) = Cardinality(Reached(k)) - 1
  BY <1>1, FS_RemoveElement
<1>. QED  BY <1>1, <1>2, <1>3

\* A candidate is asked, skipped when it has no key, or not when nobody listens.
LEMMA NextCandidateStep ==
  ASSUME ChatInv, live \in [Providers -> Nat], NEW c \in Chats, NextCandidate(c) PROVE ChatInv'
<1>. DEFINE k == chat[c]
            key == live[Candidates[k.i]]
<1>1. k \in Calls /\ LogInv(k) /\ NowInv(k) /\ k.at = "next" /\ k.at \in Open
  BY ChatFacts DEF NextCandidate, Open
<1>2. /\ k.i \in DOMAIN Candidates /\ \A j \in DOMAIN k.log : k.log[j].i # k.i /\ k.log[j].i <= k.i
      /\ k.rows <= Cardinality(Reached(k) \ {k.i})
  BY <1>1, OpenIs
<1>3. /\ DOMAIN k.log = 1..Len(k.log) /\ Len(k.log) \in Nat
      /\ k.rows \in Nat /\ k.rows <= Cardinality(Reached(k))
  <2>1. k.rows \in Nat
    BY <1>1 DEF Calls
  <2>2. /\ Cardinality(Reached(k) \ {k.i}) \in Nat /\ Cardinality(Reached(k)) \in Nat
        /\ Cardinality(Reached(k) \ {k.i}) <= Cardinality(Reached(k))
    BY <1>1, LogIsFinite, RowsAreFewer
  <2>. QED  BY <1>1, <1>2, <2>1, <2>2, LogIsFinite
<1>4. Len(k.log) # 0 => k.log[Len(k.log)].i # k.i
  BY <1>2, <1>3
<1>5. CASE To(c, [k EXCEPT !.at = "over"])
  <2>. DEFINE n == [k EXCEPT !.at = "over"]
  <2>1. n \in Calls /\ n.at = "over" /\ n.log = k.log /\ n.rows = k.rows
    BY <1>1 DEF Calls, ChatPlaces
  <2>2. To(c, n)
    BY <1>5
  <2>. HIDE DEF n
  <2>3. LogInv(n)
    BY <1>1, <2>1, SameLog
  <2>. QED  BY <2>1, <2>2, <2>3, OverStep
<1>6. CASE To(c, Failed(c, k, "unknown"))
  <2>1. k.ctx = "live" /\ Len(k.log) # 0 =>
           /\ rule.chained /\ k.log[Len(k.log)].answer # "ok"
           /\ rule.triggers = {} \/ Trigger(k.log[Len(k.log)].answer) \in rule.triggers
    BY <1>1, <1>4, OpenIs
  <2>. QED  BY <1>1, <1>3, <1>6, <2>1, FailedStep
<1>7. CASE To(c, [k EXCEPT !.at = "ask", !.tries = 0, !.secret = key])
  <2>. DEFINE n == [k EXCEPT !.at = "ask", !.tries = 0, !.secret = key]
  <2>1. key \in Nat
    <3>1. Candidates[k.i] \in Providers
      BY <1>2 DEF Providers
    <3>. QED  BY <3>1
  <2>. HIDE DEF key
  <2>2. /\ n \in Calls /\ n.at = "ask" /\ n.i = k.i /\ n.tries = 0 /\ n.secret = key /\ n.ctx = k.ctx
        /\ n.log = k.log /\ n.rows = k.rows
    BY <1>1, <2>1 DEF Calls, ChatPlaces
  <2>3. To(c, n)
    BY <1>7 DEF key
  <2>. HIDE DEF n
  <2>4. LogInv(n) /\ Reached(n) = Reached(k) /\ \A i : AskedAt(n, i) = AskedAt(k, i)
    BY <1>1, <2>2, SameLog
  <2>5. Cardinality(AskedAt(n, n.i)) = 0 /\ 0 < MaxAttempts
    <3>1. AskedAt(k, k.i) = {}
      BY <1>2 DEF AskedAt
    <3>2. AskedAt(n, n.i) = {}
      BY <2>2, <2>4, <3>1
    <3>3. 0 < MaxAttempts
      BY ProvidersAre
    <3>. QED  BY <3>2, <3>3, NoChatIs
  <2>6. NowInv(n)
    BY <1>1, <1>2, <1>4, <2>2, <2>4, <2>5, OpenIs DEF NowInv
  <2>. QED  BY <2>2, <2>3, <2>4, <2>6, CallStep
<1>. QED  BY <1>5, <1>6, <1>7 DEF NextCandidate

\* What a request that has been sent, or could not be, leaves of a call.
LEMMA AskedIs ==
  ASSUME NEW c \in Chats, NEW k \in Calls, chat[c].tries \in Nat, NEW last \in Answers \cup {"gone", "deadline"}
  PROVE  LET n == Asked(c, k, last) IN
         /\ n \in Calls /\ n.at \in {"backoff", "row"} /\ n.i = k.i /\ n.secret = k.secret /\ n.ctx = k.ctx
         /\ n.log = k.log /\ n.rows = k.rows /\ n.tries = chat[c].tries + 1 /\ n.last = last
         /\ n.at = "backoff" => last \in Transient \cup {"gone", "deadline"} /\ chat[c].tries + 1 < MaxAttempts
<1>. DEFINE at == IF last \in Transient \cup {"gone", "deadline"} /\ MayRetry(c) THEN "backoff" ELSE "row"
            t == chat[c].tries + 1
            n == [k EXCEPT !.at = at, !.tries = t, !.last = last]
<1>1. at \in {"backoff", "row"} /\ t \in Nat
  OBVIOUS
<1>2. at = "backoff" => last \in Transient \cup {"gone", "deadline"} /\ t < MaxAttempts
  BY DEF MayRetry
<1>3. Asked(c, k, last) = n
  BY DEF Asked
<1>. HIDE DEF at, t
<1>4. /\ n \in Calls /\ n.at = at /\ n.i = k.i /\ n.secret = k.secret /\ n.ctx = k.ctx
      /\ n.log = k.log /\ n.rows = k.rows /\ n.tries = t /\ n.last = last
  BY <1>1 DEF Calls, ChatPlaces
<1>. HIDE DEF n
<1>. QED  BY <1>1, <1>2, <1>3, <1>4 DEF t

\* A request that is not sent is not in the log.
LEMMA AskDeadStep ==
  ASSUME ChatInv, NEW c \in Chats, AskDead(c) PROVE ChatInv'
<1>. DEFINE k == chat[c]
            n == Asked(c, k, k.ctx)
<1>1. /\ k \in Calls /\ LogInv(k) /\ NowInv(k) /\ k.at = "ask" /\ k.at \in Open /\ k.ctx # "live"
      /\ k.tries \in Nat /\ k.ctx \in {"gone", "deadline"}
  BY ChatFacts DEF AskDead, Open, Calls
<1>2. To(c, n)
  BY DEF AskDead
<1>3. /\ n \in Calls /\ n.at \in {"backoff", "row"} /\ n.i = k.i /\ n.secret = k.secret /\ n.ctx = k.ctx
      /\ n.log = k.log /\ n.rows = k.rows /\ n.tries = k.tries + 1
      /\ n.at = "backoff" => k.tries + 1 < MaxAttempts
  BY <1>1, AskedIs
<1>. HIDE DEF n
<1>4. LogInv(n) /\ Reached(n) = Reached(k) /\ \A i : AskedAt(n, i) = AskedAt(k, i)
  BY <1>1, <1>3, SameLog
<1>5. n.at = "backoff" => n.tries < MaxAttempts /\ Cardinality(AskedAt(n, n.i)) <= n.tries
  <2>1. Cardinality(AskedAt(k, k.i)) \in Nat /\ Cardinality(AskedAt(k, k.i)) <= k.tries
    BY <1>1, OpenIs, LogIsFinite
  <2>. QED  BY <1>1, <1>3, <1>4, <2>1
<1>6. NowInv(n)
  BY <1>1, <1>3, <1>4, <1>5, OpenIs DEF NowInv
<1>. QED  BY <1>2, <1>3, <1>4, <1>6, CallStep

\* After the pause the call asks again, or gives up.
LEMMA BackoffStep ==
  ASSUME ChatInv, NEW c \in Chats, Backoff(c) PROVE ChatInv'
<1>. DEFINE k == chat[c]
            l == [k EXCEPT !.at = "ask"]
            m == [k EXCEPT !.at = "row", !.last = k.ctx]
<1>1. /\ k \in Calls /\ LogInv(k) /\ NowInv(k) /\ k.at = "backoff" /\ k.at \in Open
  BY ChatFacts DEF Backoff, Open
<1>2. CASE To(c, l)
  <2>1. /\ l \in Calls /\ l.at = "ask" /\ l.i = k.i /\ l.secret = k.secret /\ l.ctx = k.ctx
        /\ l.log = k.log /\ l.rows = k.rows /\ l.tries = k.tries
    BY <1>1 DEF Calls, ChatPlaces
  <2>. HIDE DEF l
  <2>2. LogInv(l) /\ Reached(l) = Reached(k) /\ \A i : AskedAt(l, i) = AskedAt(k, i)
    BY <1>1, <2>1, SameLog
  <2>3. NowInv(l)
    BY <1>1, <2>1, <2>2, OpenIs DEF NowInv
  <2>. QED  BY <1>2, <2>1, <2>2, <2>3, CallStep
<1>3. CASE k.ctx # "live" /\ To(c, m)
  <2>1. k.ctx \in {"gone", "deadline"}
    BY <1>1, <1>3 DEF Calls
  <2>2. /\ m \in Calls /\ m.at = "row" /\ m.i = k.i /\ m.ctx = k.ctx
        /\ m.log = k.log /\ m.rows = k.rows
    BY <1>1, <2>1 DEF Calls, ChatPlaces
  <2>. HIDE DEF m
  <2>3. LogInv(m) /\ Reached(m) = Reached(k) /\ \A i : AskedAt(m, i) = AskedAt(k, i)
    BY <1>1, <2>2, SameLog
  <2>4. NowInv(m)
    BY <1>1, <1>3, <2>2, <2>3, OpenIs DEF NowInv
  <2>. QED  BY <1>3, <2>2, <2>3, <2>4, CallStep
<1>. QED  BY <1>2, <1>3 DEF Backoff

\* A row is of a candidate that has been asked, and has none.
LEMMA WriteRowStep ==
  ASSUME ChatInv, NEW c \in Chats, WriteRow(c) PROVE ChatInv'
<1>. DEFINE k == chat[c]
            r == [k EXCEPT !.rows = @ + 1]
<1>1. /\ k \in Calls /\ LogInv(k) /\ NowInv(k) /\ k.at = "row" /\ k.at \in Open /\ k.rows \in Nat
  BY ChatFacts DEF WriteRow, Open, Calls
<1>2. /\ r \in Calls /\ r.i = k.i /\ r.ctx = k.ctx /\ r.log = k.log /\ r.rows = k.rows + 1 /\ r.last = k.last
  <2>1. k.rows + 1 \in Nat
    BY <1>1
  <2>. QED  BY <1>1, <2>1 DEF Calls
<1>3. k.rows <= Cardinality(Reached(k) \ {k.i}) /\ DOMAIN k.log = 1..Len(k.log) /\ Len(k.log) \in Nat
  BY <1>1, OpenIs, LogIsFinite
<1>4. /\ Cardinality(Reached(k) \ {k.i}) \in Nat /\ Cardinality(Reached(k)) \in Nat
      /\ Cardinality(Reached(k) \ {k.i}) <= Cardinality(Reached(k))
      /\ k.i \in Reached(k) => Cardinality(Reached(k) \ {k.i}) + 1 = Cardinality(Reached(k))
  BY <1>1, RowsAreFewer, LogIsFinite
<1>5. k.rows <= Cardinality(Reached(k))
  BY <1>1, <1>3, <1>4
<1>6. k.ctx = "live" => k.rows + 1 <= Cardinality(Reached(k))
  <2>1. k.ctx = "live" => Len(k.log) \in DOMAIN k.log /\ k.log[Len(k.log)].i = k.i
    BY <1>1, <1>3, OpenIs
  <2>2. k.ctx = "live" => k.i \in Reached(k)
    BY <2>1 DEF Reached
  <2>. QED  BY <1>1, <1>3, <1>4, <2>2
<1>7. \A q \in {k, r} : q.log = k.log /\ Reached(q) = Reached(k) /\ \A i : AskedAt(q, i) = AskedAt(k, i)
  BY <1>2, ZenonT(30) DEF Reached, AskedAt
<1>8. ASSUME NEW q \in {k, r}, q = r => k.ctx = "live",
             To(c, IF k.last = "ok" THEN [q EXCEPT !.at = "over"] ELSE Failed(c, q, k.last))
      PROVE  ChatInv'
  <2>1. q \in Calls /\ q.i = k.i /\ q.log = k.log /\ q.ctx = k.ctx /\ q.rows <= Cardinality(Reached(q))
    BY <1>1, <1>2, <1>5, <1>6, <1>7, <1>8
  <2>2. LogInv(q)
    BY <1>1, <1>7, <2>1 DEF LogInv
  <2>3. CASE k.last = "ok"
    <3>. DEFINE n == [q EXCEPT !.at = "over"]
    <3>1. n \in Calls /\ n.at = "over" /\ n.log = q.log /\ n.rows = q.rows
      BY <2>1 DEF Calls, ChatPlaces
    <3>2. To(c, n)
      BY <1>8, <2>3
    <3>. HIDE DEF n
    <3>3. LogInv(n)
      BY <2>1, <2>2, <3>1, SameLog
    <3>. QED  BY <3>1, <3>2, <3>3, OverStep
  <2>4. CASE k.last # "ok"
    <3>1. To(c, Failed(c, q, k.last))
      BY <1>8, <2>4
    <3>2. GoesOn(c, k.last) /\ q.ctx = "live" /\ Len(q.log) # 0 =>
             /\ rule.chained /\ q.log[Len(q.log)].answer # "ok"
             /\ rule.triggers = {} \/ Trigger(q.log[Len(q.log)].answer) \in rule.triggers
      <4>1. k.ctx = "live" => k.log[Len(k.log)].answer = k.last
        BY <1>1, OpenIs
      <4>. QED  BY <2>1, <2>4, <4>1 DEF GoesOn
    <3>. QED  BY <1>1, <2>1, <2>2, <3>1, <3>2, FailedStep
  <2>. QED  BY <2>3, <2>4
<1>9. \/ k.ctx = "live" /\ To(c, IF k.last = "ok" THEN [r EXCEPT !.at = "over"] ELSE Failed(c, r, k.last))
      \/ To(c, IF k.last = "ok" THEN [k EXCEPT !.at = "over"] ELSE Failed(c, k, k.last))
  BY DEF WriteRow
<1>10. CASE k.ctx = "live" /\ To(c, IF k.last = "ok" THEN [r EXCEPT !.at = "over"] ELSE Failed(c, r, k.last))
  BY <1>8, <1>10
<1>11. k # r
  <2>. HIDE DEF r, k
  <2>1. r.rows # k.rows
    BY <1>1, <1>2
  <2>. QED  BY <2>1
<1>12. CASE To(c, IF k.last = "ok" THEN [k EXCEPT !.at = "over"] ELSE Failed(c, k, k.last))
  BY <1>8, <1>11, <1>12
<1>. QED  BY <1>9, <1>10, <1>12

\* The answer is entered in the log: the last ask of this candidate was one that
\* may pass, of the candidate before one that goes on.
LEMMA AskStep ==
  ASSUME ChatInv, NEW c \in Chats, NEW answer \in Answers, Ask(c, answer) PROVE ChatInv'
<1>. DEFINE k == chat[c]
            e == [i |-> k.i, answer |-> answer, secret |-> k.secret]
            last == Len(k.log)
            l == [k EXCEPT !.log = Append(@, e)]
            n == Asked(c, l, answer)
<1>1. /\ k \in Calls /\ LogInv(k) /\ NowInv(k) /\ k.at = "ask" /\ k.at \in Open /\ k.ctx = "live"
      /\ k.tries \in Nat /\ k.secret \in Nat /\ k.i \in Nat
  BY ChatFacts DEF Ask, Open, Calls
<1>2. To(c, n)
  BY DEF Ask
<1>3. /\ k.i \in DOMAIN Candidates /\ k.tries < MaxAttempts /\ Cardinality(AskedAt(k, k.i)) <= k.tries
      /\ \A j \in DOMAIN k.log : k.log[j].i <= k.i
      /\ k.rows <= Cardinality(Reached(k) \ {k.i})
      /\ last # 0 /\ k.log[last].i = k.i => k.log[last].answer \in Transient /\ k.log[last].secret = k.secret
      /\ last # 0 /\ k.log[last].i # k.i =>
           /\ rule.chained /\ k.log[last].answer # "ok"
           /\ rule.triggers = {} \/ Trigger(k.log[last].answer) \in rule.triggers
  BY <1>1, OpenIs
<1>4. e \in Entered /\ e.i = k.i /\ e.answer = answer /\ e.secret = k.secret
  BY <1>1, <1>3 DEF Entered
<1>5. k.log \in Seq(Entered)
  BY <1>1 DEF Calls
<1>. HIDE DEF e
<1>6. /\ Append(k.log, e) \in Seq(Entered) /\ last \in Nat
      /\ DOMAIN k.log = 1..last
      /\ Len(Append(k.log, e)) = last + 1 /\ DOMAIN Append(k.log, e) = (DOMAIN k.log) \cup {last + 1}
      /\ \A j \in DOMAIN k.log : Append(k.log, e)[j] = k.log[j]
      /\ Append(k.log, e)[last + 1] = e /\ last + 1 \notin DOMAIN k.log
  BY <1>4, <1>5, AppendIs
<1>7. l \in Calls /\ l.log = Append(k.log, e) /\ l.i = k.i /\ l.secret = k.secret /\ l.ctx = k.ctx /\ l.rows = k.rows
  BY <1>1, <1>6 DEF Calls
<1>. HIDE DEF l
<1>8. /\ n \in Calls /\ n.at \in {"backoff", "row"} /\ n.i = k.i /\ n.secret = k.secret /\ n.ctx = "live"
      /\ n.log = Append(k.log, e) /\ n.rows = k.rows /\ n.tries = k.tries + 1 /\ n.last = answer
      /\ n.at = "backoff" => answer \in Transient \cup {"gone", "deadline"} /\ k.tries + 1 < MaxAttempts
  BY <1>1, <1>7, AskedIs
<1>. HIDE DEF n, k, last
<1>9. n.at = "backoff" => answer \in Transient
  BY <1>8 DEF Answers
<1>10. /\ AskedAt(n, k.i) = AskedAt(k, k.i) \cup {last + 1} /\ last + 1 \notin AskedAt(k, k.i)
       /\ \A i : i # k.i => AskedAt(n, i) = AskedAt(k, i)
       /\ Reached(n) = Reached(k) \cup {k.i}
  BY <1>4, <1>6, <1>8 DEF AskedAt, Reached
<1>11. /\ IsFiniteSet(AskedAt(k, k.i)) /\ Cardinality(AskedAt(k, k.i)) \in Nat
       /\ Cardinality(AskedAt(n, k.i)) = Cardinality(AskedAt(k, k.i)) + 1
  <2>1. IsFiniteSet(AskedAt(k, k.i)) /\ Cardinality(AskedAt(k, k.i)) \in Nat
    BY <1>1, LogIsFinite
  <2>. QED  BY <1>10, <2>1, FS_AddElement, ZenonT(30)
<1>12. Cardinality(AskedAt(n, k.i)) <= k.tries + 1 /\ k.tries + 1 <= MaxAttempts
       /\ Cardinality(AskedAt(n, k.i)) <= MaxAttempts
  <2>1. MaxAttempts \in Nat
    BY ProvidersAre
  <2>. QED  BY <1>1, <1>3, <1>11, <2>1
<1>13. k.rows <= Cardinality(Reached(n)) /\ k.rows <= Cardinality(Reached(n) \ {k.i})
  <2>1. Reached(n) \ {k.i} = Reached(k) \ {k.i}
    BY <1>10
  <2>2. /\ Cardinality(Reached(n) \ {k.i}) \in Nat /\ Cardinality(Reached(n) \ {k.i}) <= Cardinality(Reached(n))
        /\ Cardinality(Reached(n)) \in Nat /\ k.rows \in Nat
    BY <1>1, <1>8, RowsAreFewer, LogIsFinite DEF Calls
  <2>3. k.rows <= Cardinality(Reached(n) \ {k.i})
    BY <1>3, <2>1, Zenon
  <2>. QED  BY <2>2, <2>3
<1>14. LogInv(n)
  <2>1. ASSUME NEW i \in DOMAIN Candidates PROVE Cardinality(AskedAt(n, i)) <= MaxAttempts
    BY <1>1, <1>10, <1>12 DEF LogInv
  <2>2. ASSUME NEW j \in DOMAIN n.log \ {1}
        PROVE  IF n.log[j].i = n.log[j - 1].i
                 THEN n.log[j - 1].answer \in Transient /\ n.log[j].secret = n.log[j - 1].secret
                 ELSE /\ rule.chained /\ n.log[j].i > n.log[j - 1].i
                      /\ n.log[j - 1].answer # "ok"
                      /\ rule.triggers = {} \/ Trigger(n.log[j - 1].answer) \in rule.triggers
    <3>1. CASE j \in DOMAIN k.log
      <4>1. j - 1 \in DOMAIN k.log /\ j \in DOMAIN k.log \ {1}
        BY <1>6, <2>2, <3>1
      <4>2. n.log[j] = k.log[j] /\ n.log[j - 1] = k.log[j - 1]
        BY <1>6, <1>8, <3>1, <4>1
      <4>. QED  BY <1>1, <4>1, <4>2 DEF LogInv
    <3>2. CASE j = last + 1
      <4>1. last # 0 /\ j - 1 = last /\ last \in DOMAIN k.log
        BY <1>6, <2>2, <3>2
      <4>2. n.log[j] = e /\ n.log[j - 1] = k.log[last]
        BY <1>6, <1>8, <3>2, <4>1
      <4>3. k.log[last].i \in Nat
        BY <1>1, <4>1, LogIsFinite DEF Reached
      <4>. QED  BY <1>1, <1>3, <1>4, <4>1, <4>2, <4>3
    <3>. QED  BY <1>6, <1>8, <2>2, <3>1, <3>2
  <2>. QED  BY <1>8, <1>13, <2>1, <2>2 DEF LogInv
<1>15. NowInv(n)
  <2>1. Len(n.log) = last + 1 /\ Len(n.log) # 0 /\ n.log[Len(n.log)] = e
    BY <1>6, <1>8
  <2>2. \A j \in DOMAIN n.log : n.log[j].i <= n.i
    BY <1>1, <1>3, <1>4, <1>6, <1>8
  <2>3. n.at = "backoff" => /\ n.tries < MaxAttempts /\ Cardinality(AskedAt(n, n.i)) <= n.tries
                            /\ n.log[Len(n.log)].answer \in Transient /\ n.log[Len(n.log)].secret = n.secret
    BY <1>4, <1>8, <1>9, <1>12, <2>1
  <2>. QED  BY <1>3, <1>4, <1>8, <1>13, <2>1, <2>2, <2>3 DEF NowInv
<1>. QED  BY <1>2, <1>8, <1>14, <1>15, CallStep

-----------------------------------------------------------------------------
\* Every step of the gateway keeps its invariant.
LEMMA GatewayStep ==
  GatewayInv /\ [GatewayNext]_gatewayVars => GatewayInv'
<1>. SUFFICES ASSUME GatewayInv, [GatewayNext]_gatewayVars PROVE GatewayInv'  OBVIOUS
<1>1. KeyInv /\ ChatInv
  BY DEF GatewayInv
<1>2. ASSUME UNCHANGED <<keys, secrets, live, change, hydrated>> PROVE KeyInv'
  <2>1. KeyRows' = KeyRows /\ KeyTurns' = KeyTurns
    BY <1>2 DEF KeyRows, KeyTurns
  <2>2. KeyTypeOK'
    BY <1>1, <1>2, <2>1 DEF KeyInv, KeyTypeOK
  <2>3. Changing' = Changing
    BY <1>2 DEF Changing
  <2>4. RequestInv' /\ KeysAreLive'
    BY <1>1, <1>2, <2>3 DEF KeyInv, RequestInv, KeysAreLive, Live
  <2>. QED  BY <1>1, <1>2, <2>2, <2>3, <2>4 DEF KeyInv
<1>3. ASSUME UNCHANGED <<rule, chat>> PROVE ChatInv'
  <2>1. chat' \in [Chats -> Calls]
    BY <1>1, <1>3 DEF ChatInv
  <2>2. ASSUME NEW c \in Chats
        PROVE  LogInv(chat[c])' /\ NowInv(chat[c])' /\ (chat'[c].at = "none" => chat'[c] = NoChat)
    <3>1. chat'[c] = chat[c] /\ LogInv(chat[c]) /\ NowInv(chat[c]) /\ (chat[c].at = "none" => chat[c] = NoChat)
      BY <1>1, <1>3 DEF ChatInv
    <3>2. LogInv(chat[c])'
      BY <1>3, <3>1 DEF LogInv
    <3>3. NowInv(chat[c])'
      BY <1>3, <3>1 DEF NowInv
    <3>. QED  BY <3>1, <3>2, <3>3
  <2>. QED  BY <2>1, <2>2 DEF ChatInv
<1>4. CASE UNCHANGED gatewayVars
  <2>1. UNCHANGED <<keys, secrets, live, change, hydrated>> /\ UNCHANGED <<rule, chat>>
    BY <1>4 DEF gatewayVars
  <2>. QED  BY <1>2, <1>3, <2>1 DEF GatewayInv
<1>5. ASSUME NEW q \in KeyRequests, KeyStep(q) PROVE GatewayInv'
  <2>1. UNCHANGED <<rule, chat>>
    BY <1>5 DEF KeyStep, CreateKey, RotateKey, DeleteKey, Changed, ListKeys, Decrypt, RegisterProvider
  <2>. QED  BY <1>1, <1>3, <1>5, <2>1, KeyInvStep DEF GatewayInv
<1>6. ASSUME NEW c \in Chats, ChatStep(c) PROVE GatewayInv'
  <2>1. live \in [Providers -> Nat]
    BY <1>1, KeyFacts
  <2>2. ChatInv'
    <3>1. CASE Submit(c) \/ NextCandidate(c) \/ AskDead(c) \/ Backoff(c) \/ WriteRow(c)
      BY <1>1, <2>1, <3>1, SubmitStep, NextCandidateStep, AskDeadStep, BackoffStep, WriteRowStep
    <3>2. CASE \E why \in {"gone", "deadline"} : CtxEnds(c, why)
      BY <1>1, <3>2, CtxEndsStep
    <3>3. CASE \E answer \in Answers : Ask(c, answer)
      BY <1>1, <3>3, AskStep
    <3>. QED  BY <1>6, <3>1, <3>2, <3>3 DEF ChatStep
  <2>3. UNCHANGED <<keys, secrets, live, change, hydrated>>
    BY <1>6 DEF ChatStep, Submit, NextCandidate, AskDead, Backoff, WriteRow, CtxEnds, Ask, To
  <2>. QED  BY <1>2, <2>2, <2>3 DEF GatewayInv
<1>. QED  BY <1>4, <1>5, <1>6 DEF GatewayNext

\* The log of a call and the place of a key request say what they did, whatever
\* others do.  (gateway.go:285-350, hydrate.go:78-142)
THEOREM GatewayKeepsInv == GatewaySpec => []GatewayInv
<1>1. GatewayInit => GatewayInv
  BY KeyInit, ChatInit DEF GatewayInv
<1>. QED  BY <1>1, GatewayStep, PTL DEF GatewaySpec

\* A provider is asked no more often than the policy says, again only after what
\* may pass and with the same key; the next candidate only when the answer before
\* it is one a trigger of the rule fires on (transport.go:95-152, fallback.go:15-26, 96-139); the
\* rows are no more than the candidates asked (gateway.go:285-350); and a registry
\* a request made anew alone has the newest keys (hydrate.go:78-142).
THEOREM AsksAreAlwaysDue == GatewaySpec => []AsksAreDue
<1>1. GatewayInv => AsksAreDue
  <2>. SUFFICES ASSUME GatewayInv PROVE AsksAreDue  OBVIOUS
  <2>1. KeysAreLive /\ \A c \in Chats : chat[c] \in Calls /\ LogInv(chat[c])
    BY DEF GatewayInv, KeyInv, ChatInv
  <2>2. ASSUME NEW c \in Chats PROVE RetriesAreDue(c) /\ FallbacksAreDue(c) /\ RowsAreOfAsks(c)
    <3>1. \A i : AsksOf(c, i) = AskedAt(chat[c], i)
      BY DEF AsksOf, AskedAt
    <3>2. RetriesAreDue(c)
      BY <2>1, <3>1 DEF RetriesAreDue, LogInv, Transient
    <3>3. FallbacksAreDue(c)
      <4>1. ASSUME NEW a \in Answers, a # "ok", rule.triggers = {} \/ Trigger(a) \in rule.triggers
            PROVE  rule.triggers = {} \/ \E t \in DOMAIN Fires \cap rule.triggers : a \in Fires[t]
        BY <4>1 DEF Answers, Trigger, Fires
      <4>2. chat[c].log \in Seq(Entered)
        BY <2>1 DEF Calls
      <4>3. \A j \in DOMAIN chat[c].log : chat[c].log[j].answer \in Answers
        <5>1. \A j \in DOMAIN chat[c].log : chat[c].log[j] \in Entered  BY <4>2
        <5>. QED  BY <5>1 DEF Entered
      <4>4. \A j \in DOMAIN chat[c].log \ {1} : j - 1 \in DOMAIN chat[c].log
        BY <4>2
      <4>. QED  BY <2>1, <4>1, <4>3, <4>4 DEF FallbacksAreDue, LogInv
    <3>4. RowsAreOfAsks(c)
      BY <2>1 DEF RowsAreOfAsks, LogInv, Reached
    <3>. QED  BY <3>2, <3>3, <3>4
  <2>. QED  BY <2>1, <2>2 DEF AsksAreDue
<1>. QED  BY <1>1, GatewayKeepsInv, PTL
=============================================================================
