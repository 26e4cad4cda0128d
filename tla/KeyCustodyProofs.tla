---------------------------- MODULE KeyCustodyProofs ----------------------------
(***************************************************************************)
(* The master key of a folder, for any number of hosts and keys.           *)
(*                                                                         *)
(* Orderly is where everything starts: commands and hosts exclude each     *)
(* other, only Core writes the record while hosts run, and it does so only *)
(* where it found none.  With the types it gives that a host runs under    *)
(* the recorded key.                                                       *)
(*                                                                         *)
(* SInv adds what keeps a key from being lost: a retirement stores the     *)
(* material before it indexes it, an installation retires what it replaces *)
(* before it stores its key, and a host runs under a key that can be found *)
(* again.                                                                  *)
(*                                                                         *)
(* OldInv and RefInv carry what a host holds: the retired keys it loaded,  *)
(* and, while several climb at once, where the key each is about to store  *)
(* can have come from.                                                     *)
(***************************************************************************)
EXTENDS KeyCustody, TLAPS

HoldingStep == {"store", "verify", "publish", "decide", "retire", "note", "up"}

(* Which steps a process can be at, and that it has a key there.           *)
HasKey ==
  /\ \A h \in Host : pc[h] \in HoldingStep => key[h] \in Key
  /\ pc[Admin] \in {"install", "note"} => key[Admin] \in Key
  /\ pc[Admin] = "retire" =>
       /\ after[Admin] \in {"install", "up", "clear"}
       /\ after[Admin] = "install" => key[Admin] \in Key

(* A host between its first read and its end.                              *)
InOrder(h) ==
  /\ pc[h] \notin {"install", "clear"}
  /\ pc[h] = "retire" => after[h] \in {"note", "up"}
  /\ pc[h] = "retire" /\ after[h] = "up" => seen[h] # NoKey /\ key[h] = seen[h]
  /\ pc[h] = "note" \/ (pc[h] = "retire" /\ after[h] = "note") => h = Core /\ seen[h] = NoKey
  /\ pc[h] = "up" /\ seen[h] # NoKey => key[h] = seen[h]
  /\ pc[h] # "idle" => pc[Admin] = "idle"
  /\ pc[h] # "idle" /\ seen[h] # NoKey => seen[h] = record
  /\ h = Core /\ pc[h] \notin {"idle", "up", "refused"} /\ seen[h] = NoKey => record = NoKey

Orderly == \A h \in Host : InOrder(h)

CInv == TypeOK /\ HasKey /\ Orderly

LEMMA KeyFacts ==
  /\ NoKey \notin Key /\ Bad \notin Key /\ NoKey # Bad
  /\ Host \subseteq Proc /\ Admin \in Proc /\ Core \in Host
  /\ \A h \in Host : h # Admin
  /\ OldKey \subseteq Key /\ NewKey \subseteq Key /\ OperatorKey \subseteq Key
  BY CustodyConstants DEF Proc, Key

LEMMA CandidatesAreKeys ==
  ASSUME TypeOK
  PROVE  /\ Candidates \subseteq Key /\ Retired \subseteq Key
         /\ LiveCandidates \subseteq Key /\ Persistent \subseteq Key
         /\ KeychainKey \in Content
  BY KeyFacts DEF TypeOK, Candidates, Retired, LiveCandidates, Persistent, KeychainKey,
                  Content, Entry

LEMMA InitCInv == Init => CInv
<1> SUFFICES ASSUME Init PROVE CInv
  OBVIOUS
<1> USE DEF Init
<1>1. TypeOK
  <2>1. {env, keychain, file, legacy} \subseteq Content
    BY KeyFacts DEF Content
  <2>2. sealed \subseteq Key /\ turns \in 0..MaxTurns
    BY CustodyConstants
  <2> QED BY <2>1, <2>2 DEF TypeOK, Step
<1>2. HasKey
  BY KeyFacts DEF HasKey, HoldingStep
<1>3. Orderly
  BY KeyFacts DEF Orderly, InOrder
<1> QED BY <1>1, <1>2, <1>3 DEF CInv

(* A step of one host, by what it does to that host and to the record.     *)
LEMMA OneHost ==
  ASSUME CInv, NEW h \in Host,
         \A p \in Proc \ {h} : /\ pc'[p] = pc[p] /\ seen'[p] = seen[p] /\ key'[p] = key[p]
                               /\ after'[p] = after[p],
         record' = record,
         pc'[h] \in HoldingStep => key'[h] \in Key,
         InOrder(h)'
  PROVE  HasKey' /\ Orderly'
<1>1. HasKey'
  BY KeyFacts DEF CInv, HasKey
<1>2. \A g \in Host \ {h} : InOrder(g)'
  BY KeyFacts DEF CInv, Orderly, InOrder
<1> QED BY <1>1, <1>2 DEF Orderly

LEMMA StartKeeps ==
  ASSUME CInv, NEW h \in Host, StartResolve(h)
  PROVE  CInv'
<1> USE KeyFacts
<1>1. /\ pc[h] = "idle" /\ pc[Admin] = "idle"
      /\ pc' = [pc EXCEPT ![h] = "ladder"] /\ seen' = [seen EXCEPT ![h] = record]
      /\ UNCHANGED <<turns, slots, reach, vault, index, record, ghosts, key, source,
                     ring, todo, after>>
  BY DEF StartResolve, Goto
<1>2. TypeOK'
  BY <1>1 DEF CInv, TypeOK, Step, slots, ghosts
<1>3. InOrder(h)'
  BY <1>1 DEF CInv, TypeOK, InOrder
<1>4. pc'[h] = "ladder"
  BY <1>1 DEF CInv, TypeOK
<1>5. HasKey' /\ Orderly'
  BY <1>1, <1>3, <1>4, OneHost DEF CInv, TypeOK, HoldingStep
<1> QED BY <1>2, <1>5 DEF CInv

(* A step of the ladder or of the decision that keeps the vault and the    *)
(* record: the host goes on to s with the key k.                           *)
LEMMA LadderStep ==
  ASSUME CInv, NEW h \in Host,
         pc[h] \in {"ladder", "store", "verify", "publish", "decide"},
         NEW s \in {"store", "verify", "publish", "decide", "up", "refused"},
         NEW k \in Key \cup {NoKey},
         s # "refused" => k \in Key,
         s = "up" /\ seen[h] # NoKey => k = seen[h],
         {env', keychain', file', legacy'} \subseteq Content,
         minted' \subseteq NewKey, clobbered' \subseteq Key,
         pc' = [pc EXCEPT ![h] = s], key' = [key EXCEPT ![h] = k],
         source' \in [Proc -> {"none", "env", "keychain", "file"}],
         ring' \in [Proc -> SUBSET Key],
         UNCHANGED <<turns, reach, vault, index, record, sealed, erased,
                     seen, todo, after>>
  PROVE  CInv'
<1> USE KeyFacts
<1>1. TypeOK'
  <2>1. /\ reach' \in {"rw", "ro", "off"} /\ vault' \subseteq Entry /\ index' \subseteq Entry
        /\ record' \in Key \cup {NoKey} /\ turns' \in 0..MaxTurns
        /\ UNION {sealed', erased', clobbered'} \subseteq Key
    BY DEF CInv, TypeOK
  <2>2. /\ pc' \in [Proc -> Step] /\ seen' \in [Proc -> Key \cup {NoKey}]
        /\ key' \in [Proc -> Key \cup {NoKey}] /\ after' \in [Proc -> Step]
        /\ todo' \in [Proc -> SUBSET ({"none", "keychain", "file"} \X Key)]
    BY DEF CInv, TypeOK, Step
  <2> QED BY <2>1, <2>2 DEF TypeOK
<1>2. pc'[h] = s /\ key'[h] = k
  BY DEF CInv, TypeOK
<1>3. InOrder(h)'
  BY <1>2 DEF CInv, Orderly, InOrder
<1>4. HasKey' /\ Orderly'
  BY <1>2, <1>3, OneHost DEF CInv, TypeOK, HoldingStep
<1> QED BY <1>1, <1>4 DEF CInv

LEMMA RefuseKeeps ==
  ASSUME CInv, NEW h \in Host, Refuse(h), clobbered' \subseteq Key,
         pc[h] \in {"ladder", "store", "verify", "publish", "decide"},
         UNCHANGED <<turns, reach, vault, index, record, sealed, erased,
                     seen, todo, after>>
  PROVE  CInv'
<1> USE KeyFacts
<1>1. /\ {env', keychain', file', legacy'} \subseteq Content /\ minted' \subseteq NewKey
  BY DEF Refuse, slots, CInv, TypeOK
<1>2. CASE seen[h] \in Candidates
  <2>1. /\ pc' = [pc EXCEPT ![h] = "up"] /\ key' = [key EXCEPT ![h] = seen[h]]
        /\ source' = [source EXCEPT ![h] = "file"]
        /\ ring' = [ring EXCEPT ![h] = Retired]
    BY <1>2 DEF Refuse, Hold, Ring, Goto
  <2>2. seen[h] \in Key /\ Retired \subseteq Key
    BY <1>2, CandidatesAreKeys DEF CInv
  <2>3. /\ source' \in [Proc -> {"none", "env", "keychain", "file"}]
        /\ ring' \in [Proc -> SUBSET Key]
    BY <2>1, <2>2 DEF CInv, TypeOK
  <2> QED BY <1>1, <2>1, <2>2, <2>3, LadderStep
<1>3. CASE seen[h] \notin Candidates
  <2>1. /\ pc' = [pc EXCEPT ![h] = "refused"] /\ key' = key
        /\ source' = source /\ ring' = ring
    BY <1>3 DEF Refuse, Goto
  <2>2. key[h] \in Key \cup {NoKey} /\ key' = [key EXCEPT ![h] = key[h]]
    BY <2>1 DEF CInv, TypeOK
  <2>3. /\ source' \in [Proc -> {"none", "env", "keychain", "file"}]
        /\ ring' \in [Proc -> SUBSET Key]
    BY <2>1 DEF CInv, TypeOK
  <2> QED BY <1>1, <2>1, <2>2, <2>3, LadderStep
<1> QED BY <1>2, <1>3

LEMMA HoldKeeps ==
  ASSUME CInv, NEW h \in Host, NEW k \in Key, NEW src \in {"env", "keychain", "file"},
         NEW s \in {"store", "verify", "publish", "decide"},
         Hold(h, k, src), Goto(h, s), ring' = ring,
         {env', keychain', file', legacy'} \subseteq Content,
         minted' \subseteq NewKey, clobbered' \subseteq Key,
         pc[h] \in {"ladder", "store", "verify", "publish", "decide"},
         UNCHANGED <<turns, reach, vault, index, record, sealed, erased,
                     seen, todo, after>>
  PROVE  CInv'
<1> USE KeyFacts
<1>1. /\ pc' = [pc EXCEPT ![h] = s] /\ key' = [key EXCEPT ![h] = k]
      /\ source' = [source EXCEPT ![h] = src]
  BY DEF Hold, Goto
<1>2. /\ source' \in [Proc -> {"none", "env", "keychain", "file"}]
      /\ ring' \in [Proc -> SUBSET Key]
  BY <1>1 DEF CInv, TypeOK
<1> QED BY <1>1, <1>2, LadderStep

LEMMA ClimbKeeps ==
  ASSUME CInv, NEW h \in Host, Climb(h)
  PROVE  CInv'
<1> USE KeyFacts
<1>1. /\ pc[h] = "ladder"
      /\ UNCHANGED <<turns, reach, vault, index, record, sealed, erased,
                     clobbered, seen, todo, after>>
  BY DEF Climb
<1>2. clobbered' \subseteq Key /\ minted \subseteq NewKey
      /\ {env, keychain, file, legacy} \subseteq Content
  BY <1>1 DEF CInv, TypeOK
<1>3. ASSUME Refuse(h) PROVE CInv'
  BY <1>1, <1>2, <1>3, RefuseKeeps
<1>4. ASSUME NEW k \in Key, NEW src \in {"env", "keychain", "file"},
             NEW s \in {"store", "publish", "decide"}, Take(h, k, src, s)
      PROVE  CInv'
  BY <1>1, <1>2, <1>4, HoldKeeps DEF Take, slots
<1>5. ASSUME Hold(h, keychain, "keychain"), Goto(h, "decide"), keychain \in Key,
             legacy' \in {NoKey, legacy}, UNCHANGED <<env, keychain, file, minted, ring>>
      PROVE  CInv'
  <2>1. {env', keychain', file', legacy'} \subseteq Content
    BY <1>2, <1>5 DEF Content
  <2> QED BY <1>1, <1>2, <1>5, <2>1, HoldKeeps
<1>6. ASSUME NEW s \in {"store", "publish", "decide"}, FallBack(h, s)
      PROVE  CInv'
  <2>1. ASSUME NEW k \in NewKey \ minted, Hold(h, k, "file"), Goto(h, s),
               minted' = minted \cup {k}, UNCHANGED <<slots, ring>>
        PROVE  CInv'
    <3>1. minted' \subseteq NewKey /\ {env', keychain', file', legacy'} \subseteq Content
      BY <1>2, <2>1 DEF slots
    <3> QED BY <1>1, <1>2, <2>1, <3>1, HoldKeeps
  <2> DEFINE held == IF AllowFile /\ file \in Key THEN file ELSE legacy
  <2>2. \/ held \in Key /\ Take(h, held, "file", s)
        \/ Refuse(h)
        \/ \E k \in NewKey \ minted :
             Hold(h, k, "file") /\ Goto(h, s) /\ minted' = minted \cup {k}
             /\ UNCHANGED <<slots, ring>>
    BY <1>6 DEF FallBack
  <2> QED BY <1>3, <1>4, <2>1, <2>2
<1>7. \/ env \in Key /\ Take(h, env, "env", "decide")
      \/ Refuse(h)
      \/ /\ Hold(h, keychain, "keychain") /\ Goto(h, "decide") /\ keychain \in Key
         /\ legacy' \in {NoKey, legacy} /\ UNCHANGED <<env, keychain, file, minted, ring>>
      \/ \E s \in {"store", "publish", "decide"} : FallBack(h, s)
  BY DEF Climb, KeychainKey
<1> QED BY <1>3, <1>4, <1>5, <1>6, <1>7

LEMMA StoreKeeps ==
  ASSUME CInv, NEW h \in Host, StoreInKeychain(h)
  PROVE  CInv'
<1> USE KeyFacts
<1>1. /\ pc[h] = "store" /\ key[h] \in Key
      /\ UNCHANGED <<turns, reach, vault, index, record, sealed, erased,
                     seen, todo, after>>
  BY DEF StoreInKeychain, CInv, HasKey, HoldingStep
<1>2. clobbered \subseteq Key /\ minted \subseteq NewKey
      /\ {env, keychain, file, legacy} \subseteq Content /\ Key \subseteq Content
  BY DEF CInv, TypeOK, Content
<1>3. CASE reach = "rw"
  <2>1. /\ keychain' = key[h] /\ clobbered' = clobbered \cup ({keychain} \cap (Key \ {key[h]}))
        /\ pc' = [pc EXCEPT ![h] = "verify"]
        /\ UNCHANGED <<env, file, legacy, minted, key, source, ring>>
    BY <1>3 DEF StoreInKeychain, Goto
  <2>2. clobbered' \subseteq Key /\ {env', keychain', file', legacy'} \subseteq Content
        /\ minted' \subseteq NewKey
    BY <1>1, <1>2, <2>1
  <2>3. /\ source' \in [Proc -> {"none", "env", "keychain", "file"}]
        /\ ring' \in [Proc -> SUBSET Key] /\ key' = [key EXCEPT ![h] = key[h]]
    BY <2>1 DEF CInv, TypeOK
  <2> QED BY <1>1, <2>1, <2>2, <2>3, LadderStep
<1>4. CASE reach # "rw"
  <2>1. clobbered' \subseteq Key
    BY <1>2, <1>4 DEF StoreInKeychain
  <2>2. ASSUME Refuse(h) PROVE CInv'
    BY <1>1, <2>1, <2>2, RefuseKeeps
  <2>3. ASSUME Take(h, key[h], "file", "publish") PROVE CInv'
    BY <1>1, <1>2, <2>1, <2>3, HoldKeeps DEF Take, slots
  <2> QED BY <1>4, <2>2, <2>3 DEF StoreInKeychain
<1> QED BY <1>3, <1>4

LEMMA VerifyKeeps ==
  ASSUME CInv, NEW h \in Host, VerifyKeychain(h)
  PROVE  CInv'
<1> USE KeyFacts
<1>1. /\ pc[h] = "verify" /\ key[h] \in Key
      /\ UNCHANGED <<turns, reach, vault, index, record, sealed, erased,
                     clobbered, seen, todo, after>>
  BY DEF VerifyKeychain, CInv, HasKey, HoldingStep
<1>2. clobbered' \subseteq Key /\ minted \subseteq NewKey
      /\ {env, keychain, file, legacy} \subseteq Content
  BY <1>1 DEF CInv, TypeOK
<1>3. CASE KeychainKey = key[h]
  <2>1. /\ Hold(h, key[h], "keychain") /\ Goto(h, "decide") /\ legacy' \in {NoKey, legacy}
        /\ UNCHANGED <<env, keychain, file, minted, ring>>
    BY <1>3 DEF VerifyKeychain
  <2>2. {env', keychain', file', legacy'} \subseteq Content
    BY <1>2, <2>1 DEF Content
  <2> QED BY <1>1, <1>2, <2>1, <2>2, HoldKeeps
<1>4. CASE KeychainKey # key[h]
  BY <1>1, <1>2, <1>4, RefuseKeeps DEF VerifyKeychain
<1> QED BY <1>3, <1>4

LEMMA PublishKeeps ==
  ASSUME CInv, NEW h \in Host, PublishFile(h)
  PROVE  CInv'
<1> USE KeyFacts
<1>1. /\ pc[h] = "publish" /\ key[h] \in Key
      /\ UNCHANGED <<turns, reach, vault, index, record, sealed, erased,
                     clobbered, seen, todo, after>>
  BY DEF PublishFile, CInv, HasKey, HoldingStep
<1>2. clobbered' \subseteq Key /\ minted \subseteq NewKey
      /\ {env, keychain, file, legacy} \subseteq Content
  BY <1>1 DEF CInv, TypeOK
<1>3. CASE file = Bad
  BY <1>1, <1>2, <1>3, RefuseKeeps DEF PublishFile
<1>4. CASE file # Bad
  <2> DEFINE k == IF file = NoKey THEN key[h] ELSE file
  <2>1. k \in Key
    BY <1>1, <1>2, <1>4 DEF Content
  <2>2. /\ Hold(h, k, "file") /\ Goto(h, "decide") /\ file' = k
        /\ UNCHANGED <<env, keychain, legacy, minted, ring>>
    BY <1>4 DEF PublishFile
  <2> HIDE DEF k
  <2>3. {env', keychain', file', legacy'} \subseteq Content /\ minted' \subseteq NewKey
    BY <1>2, <2>1, <2>2 DEF Content
  <2> QED BY <1>1, <1>2, <2>1, <2>2, <2>3, HoldKeeps
<1> QED BY <1>3, <1>4

LEMMA DecideKeeps ==
  ASSUME CInv, NEW h \in Host, Decide(h)
  PROVE  CInv'
<1> USE KeyFacts
<1>1. /\ pc[h] = "decide" /\ key[h] \in Key
      /\ UNCHANGED <<turns, slots, reach, vault, index, record, ghosts, seen>>
  BY DEF Decide, CInv, HasKey, HoldingStep
<1>2. /\ {env', keychain', file', legacy'} \subseteq Content
      /\ minted' \subseteq NewKey /\ clobbered' \subseteq Key
      /\ UNCHANGED <<turns, reach, vault, index, record, sealed, erased, seen>>
  BY <1>1 DEF slots, ghosts, CInv, TypeOK
<1>3. Retired \subseteq Key /\ Candidates \subseteq Key
  BY CandidatesAreKeys DEF CInv
<1>4. ASSUME ComeUp(h, key[h]), seen[h] \in {NoKey, key[h]} PROVE CInv'
  <2>1. /\ pc' = [pc EXCEPT ![h] = "up"] /\ key' = [key EXCEPT ![h] = key[h]]
        /\ source' = [source EXCEPT ![h] = source[h]]
        /\ ring' = [ring EXCEPT ![h] = Retired \ {key[h]}]
        /\ UNCHANGED <<todo, after>>
    BY <1>4 DEF ComeUp, Hold, Ring, Goto
  <2>2. /\ source' \in [Proc -> {"none", "env", "keychain", "file"}]
        /\ ring' \in [Proc -> SUBSET Key]
    BY <1>3, <2>1 DEF CInv, TypeOK
  <2> QED BY <1>1, <1>2, <1>4, <2>1, <2>2, LadderStep
<1>5. ASSUME Mismatch(h) PROVE CInv'
  <2>1. /\ pc' = [pc EXCEPT ![h] = "refused"] /\ key' = [key EXCEPT ![h] = key[h]]
        /\ UNCHANGED <<todo, after>>
        /\ source' \in [Proc -> {"none", "env", "keychain", "file"}]
        /\ ring' \in [Proc -> SUBSET Key]
    BY <1>5 DEF Mismatch, Goto, CInv, TypeOK
  <2> QED BY <1>1, <1>2, <2>1, LadderStep
(* Towards the record, on which only Core is.                              *)
<1>6. ASSUME NEW k \in Key, NEW then \in {"note", "up"}, Recover(h, k, then),
             then = "up" => k = seen[h],
             then = "note" => h = Core /\ seen[h] = NoKey
      PROVE  CInv'
  <2>1. /\ key' = [key EXCEPT ![h] = k] /\ source' = [source EXCEPT ![h] = source[h]]
        /\ ring' = [ring EXCEPT ![h] = (Retired \cup {key[h]}) \ {k}]
        /\ todo' = [todo EXCEPT ![h] = IF source[h] = "env" THEN {} ELSE {<<"none", key[h]>>}]
        /\ after' = [after EXCEPT ![h] = then]
        /\ pc' = [pc EXCEPT ![h] = IF source[h] = "env" THEN then ELSE "retire"]
    BY <1>6 DEF Recover, Hold, Ring, Goto
  <2>2. /\ key' \in [Proc -> Key \cup {NoKey}]
        /\ source' \in [Proc -> {"none", "env", "keychain", "file"}]
        /\ ring' \in [Proc -> SUBSET Key]
    BY <1>1, <1>3, <2>1 DEF CInv, TypeOK
  <2>3. todo' \in [Proc -> SUBSET ({"none", "keychain", "file"} \X Key)]
    <3>1. <<"none", key[h]>> \in {"none", "keychain", "file"} \X Key
      BY <1>1
    <3>2. \A t \in SUBSET ({"none", "keychain", "file"} \X Key) :
            [todo EXCEPT ![h] = t] \in [Proc -> SUBSET ({"none", "keychain", "file"} \X Key)]
      BY DEF CInv, TypeOK
    <3> QED BY <2>1, <3>1, <3>2
  <2>4. after' \in [Proc -> Step] /\ pc' \in [Proc -> Step]
    BY <2>1 DEF CInv, TypeOK, Step
  <2>5. TypeOK'
    BY <1>1, <1>2, <2>2, <2>3, <2>4 DEF CInv, TypeOK, ghosts, slots
  <2>6. /\ pc'[h] \in {then, "retire"} /\ key'[h] = k /\ after'[h] = then /\ seen'[h] = seen[h]
        /\ record' = record
        /\ \A p \in Proc \ {h} : /\ pc'[p] = pc[p] /\ seen'[p] = seen[p] /\ key'[p] = key[p]
                                 /\ after'[p] = after[p]
    BY <1>2, <2>1 DEF CInv, TypeOK
  <2>7. InOrder(h)'
    BY <1>1, <1>6, <2>6 DEF CInv, Orderly, InOrder
  <2>8. HasKey' /\ Orderly'
    BY <2>6, <2>7, OneHost
  <2> QED BY <2>5, <2>8 DEF CInv
<1>7. ASSUME h = Core, seen[h] = NoKey, Ring(h, Retired \ {key[h]}), Goto(h, "note"),
             UNCHANGED <<key, source, todo, after>>
      PROVE  CInv'
  <2>1. /\ pc' = [pc EXCEPT ![h] = "note"] /\ ring' = [ring EXCEPT ![h] = Retired \ {key[h]}]
    BY <1>7 DEF Ring, Goto
  <2>2. TypeOK'
    BY <1>1, <1>2, <1>3, <1>7, <2>1 DEF CInv, TypeOK, Step, ghosts, slots
  <2>3. /\ pc'[h] = "note" /\ key'[h] = key[h] /\ seen'[h] = seen[h] /\ record' = record
        /\ \A p \in Proc \ {h} : /\ pc'[p] = pc[p] /\ seen'[p] = seen[p] /\ key'[p] = key[p]
                                 /\ after'[p] = after[p]
    BY <1>2, <1>7, <2>1 DEF CInv, TypeOK
  <2>4. InOrder(h)'
    BY <1>1, <1>7, <2>3 DEF CInv, Orderly, InOrder
  <2>5. HasKey' /\ Orderly'
    BY <1>1, <2>3, <2>4, OneHost
  <2> QED BY <2>2, <2>5 DEF CInv
<1>8. CASE seen[h] = key[h] \/ (seen[h] = NoKey /\ h # Core)
  BY <1>4, <1>8 DEF Decide
<1>9. CASE seen[h] = NoKey /\ h = Core
  <2>1. \/ Ring(h, Retired \ {key[h]}) /\ Goto(h, "note") /\ UNCHANGED <<key, source, todo, after>>
        \/ Mismatch(h)
        \/ \E k \in Candidates : Recover(h, k, "note")
    BY <1>1, <1>9 DEF Decide
  <2> QED BY <1>3, <1>5, <1>6, <1>7, <1>9, <2>1
<1>10. CASE seen[h] # key[h] /\ seen[h] # NoKey
  <2>1. \/ Mismatch(h)
        \/ Recover(h, seen[h], "up")
    BY <1>10 DEF Decide
  <2>2. seen[h] \in Key
    BY <1>10 DEF CInv, TypeOK
  <2> QED BY <1>5, <1>6, <2>1, <2>2
<1> QED BY <1>8, <1>9, <1>10

(* With every host idle a command may go anywhere and write the record.    *)
LEMMA OneCommand ==
  ASSUME CInv, \A h \in Host : pc[h] = "idle" /\ pc'[h] = "idle",
         pc'[Admin] \in {"install", "note"} => key'[Admin] \in Key,
         pc'[Admin] = "retire" => /\ after'[Admin] \in {"install", "up", "clear"}
                                  /\ after'[Admin] = "install" => key'[Admin] \in Key
  PROVE  HasKey' /\ Orderly'
  BY DEF HasKey, Orderly, InOrder, HoldingStep

LEMMA HostsRest ==
  ASSUME CInv, pc[Admin] # "idle"
  PROVE  \A h \in Host : pc[h] = "idle"
  BY DEF CInv, Orderly, InOrder

LEMMA RetireStep ==
  ASSUME CInv, NEW p \in Proc, pc[p] = "retire", NEW s \in Step,
         s \in {after[p], "retire"} \/ (p = Admin /\ s = "refused"),
         pc' = [pc EXCEPT ![p] = s], UNCHANGED <<key, seen, after, record>>
  PROVE  HasKey' /\ Orderly'
<1> USE KeyFacts
<1>1. pc'[p] = s /\ \A q \in Proc \ {p} : pc'[q] = pc[q]
  BY DEF CInv, TypeOK
<1>2. CASE p = Admin
  <2>1. \A h \in Host : pc[h] = "idle" /\ pc'[h] = "idle"
    BY <1>1, <1>2, HostsRest
  <2>2. /\ pc'[Admin] \in {"install", "note"} => key'[Admin] \in Key
        /\ pc'[Admin] = "retire" => /\ after'[Admin] \in {"install", "up", "clear"}
                                    /\ after'[Admin] = "install" => key'[Admin] \in Key
    BY <1>1, <1>2 DEF CInv, HasKey
  <2> QED BY <2>1, <2>2, OneCommand
<1>3. CASE p \in Host
  <2>1. InOrder(p)'
    BY <1>1, <1>3 DEF CInv, Orderly, InOrder
  <2>2. key'[p] \in Key
    BY <1>3 DEF CInv, HasKey, HoldingStep
  <2> QED BY <1>1, <1>3, <2>1, <2>2, OneHost
<1> QED BY <1>2, <1>3 DEF Proc

LEMMA StoreRetiredKeeps ==
  ASSUME CInv, NEW p \in Proc, StoreRetired(p)
  PROVE  CInv'
<1> USE KeyFacts
<1>1. /\ pc[p] = "retire"
      /\ UNCHANGED <<turns, slots, reach, index, record, ghosts, seen, key, source, ring, after>>
  BY DEF StoreRetired
<1>2. after[p] \in Step
  BY DEF CInv, TypeOK
<1>3. PICK e \in todo[p] :
       IF e[2] \in IndexedKeys
       THEN Drop(p, e) /\ UNCHANGED vault
       ELSE IF Cardinality(index) >= MaxRetired
       THEN /\ UNCHANGED vault
            /\ IF p = Admin THEN Goto(p, "refused") /\ UNCHANGED todo ELSE Drop(p, e)
       ELSE LET shelf == <<IF PrefersKeychain(p) THEN "keychain" ELSE "file", e[2]>>
            IN /\ vault' = vault \cup {shelf}
               /\ todo' = [todo EXCEPT ![p] = (@ \ {e}) \cup {shelf}]
               /\ UNCHANGED pc
  BY DEF StoreRetired
<1>4. e[2] \in Key
  BY DEF CInv, TypeOK
<1>5. /\ vault' \subseteq Entry
      /\ todo' \in [Proc -> SUBSET ({"none", "keychain", "file"} \X Key)]
      /\ \E s \in Step : /\ pc' = [pc EXCEPT ![p] = s]
                         /\ s \in {after[p], "retire"} \/ (p = Admin /\ s = "refused")
  <2>1. ASSUME Drop(p, e), vault' = vault PROVE <1>5!:
    <3>1. todo' \in [Proc -> SUBSET ({"none", "keychain", "file"} \X Key)]
      BY <2>1 DEF Drop, CInv, TypeOK
    <3>2. vault' \subseteq Entry
      BY <2>1 DEF CInv, TypeOK
    <3>3. "retire" \in Step
      BY DEF Step
    <3> QED BY <1>2, <2>1, <3>1, <3>2, <3>3 DEF Drop, Goto
  <2>2. ASSUME p = Admin, Goto(p, "refused"), UNCHANGED <<vault, todo>> PROVE <1>5!:
    BY <2>2 DEF Goto, CInv, TypeOK, Step
  <2>3. ASSUME NEW shelf \in Entry, vault' = vault \cup {shelf}, pc' = pc,
               todo' = [todo EXCEPT ![p] = (@ \ {e}) \cup {shelf}]
        PROVE <1>5!:
    <3>1. shelf \in {"none", "keychain", "file"} \X Key
      BY DEF Entry
    <3>2. todo' \in [Proc -> SUBSET ({"none", "keychain", "file"} \X Key)]
      BY <2>3, <3>1 DEF CInv, TypeOK
    <3>3. vault' \subseteq Entry
      BY <2>3 DEF CInv, TypeOK
    <3>4. pc' = [pc EXCEPT ![p] = "retire"] /\ "retire" \in Step
      BY <1>1, <2>3 DEF CInv, TypeOK, Step
    <3> QED BY <3>2, <3>3, <3>4
  <2>4. <<IF PrefersKeychain(p) THEN "keychain" ELSE "file", e[2]>> \in Entry
    BY <1>4 DEF Entry
  <2> QED BY <1>3, <2>1, <2>2, <2>3, <2>4
<1>6. PICK s \in Step : /\ pc' = [pc EXCEPT ![p] = s]
                        /\ s \in {after[p], "retire"} \/ (p = Admin /\ s = "refused")
  BY <1>5
<1>7. HasKey' /\ Orderly'
  BY <1>1, <1>6, RetireStep
<1>8. TypeOK'
  BY <1>1, <1>5, <1>6 DEF CInv, TypeOK, slots, ghosts
<1> QED BY <1>7, <1>8 DEF CInv

LEMMA IndexRetiredKeeps ==
  ASSUME CInv, NEW p \in Proc, IndexRetired(p)
  PROVE  CInv'
<1> USE KeyFacts
<1>1. /\ pc[p] = "retire"
      /\ UNCHANGED <<turns, slots, reach, vault, record, ghosts, seen, key, source, ring, after>>
  BY DEF IndexRetired
<1>2. PICK e \in todo[p] : e[1] # "none" /\ index' = index \cup {e} /\ Drop(p, e)
  BY DEF IndexRetired
<1>3. e \in Entry
  BY <1>2 DEF CInv, TypeOK, Entry
<1>4. PICK s \in {after[p], "retire"} : pc' = [pc EXCEPT ![p] = s]
  BY <1>2 DEF Drop, Goto
<1>5. s \in Step
  BY DEF CInv, TypeOK, Step
<1>6. /\ index' \subseteq Entry
      /\ todo' \in [Proc -> SUBSET ({"none", "keychain", "file"} \X Key)]
  BY <1>2, <1>3 DEF CInv, TypeOK, Drop
<1>7. HasKey' /\ Orderly'
  BY <1>1, <1>4, <1>5, RetireStep
<1>8. TypeOK'
  BY <1>1, <1>4, <1>5, <1>6 DEF CInv, TypeOK, slots, ghosts
<1> QED BY <1>7, <1>8 DEF CInv

(* Of the hosts only Core writes the record, and it found none: no host    *)
(* that found one is at work.                                              *)
LEMMA RecordKeeps ==
  ASSUME CInv, NEW p \in Proc, RecordKey(p)
  PROVE  CInv'
<1> USE KeyFacts
<1>1. /\ pc[p] = "note" /\ record' = key[p]
      /\ pc' = [pc EXCEPT ![p] = "up"]
      /\ UNCHANGED <<turns, slots, reach, vault, index, sealed, minted, erased, clobbered,
                     seen, key, source, ring, todo, after>>
  BY DEF RecordKey, Goto
<1>2. key[p] \in Key
  BY <1>1 DEF CInv, HasKey, HoldingStep, Proc
<1>3. pc'[p] = "up" /\ \A q \in Proc \ {p} : pc'[q] = pc[q]
  BY <1>1 DEF CInv, TypeOK
<1>4. TypeOK'
  BY <1>1, <1>2 DEF CInv, TypeOK, slots, Step
<1>5. CASE p = Admin
  <2>1. \A h \in Host : pc[h] = "idle" /\ pc'[h] = "idle"
    BY <1>1, <1>3, <1>5, HostsRest
  <2>2. HasKey' /\ Orderly'
    BY <1>3, <1>5, <2>1, OneCommand
  <2> QED BY <1>4, <2>2 DEF CInv
<1>6. CASE p \in Host
  <2>1. p = Core /\ seen[Core] = NoKey /\ record = NoKey /\ pc[Admin] = "idle"
    BY <1>1, <1>6 DEF CInv, Orderly, InOrder
  <2>2. \A h \in Host : pc[h] # "idle" => seen[h] = NoKey
    BY <2>1 DEF CInv, Orderly, InOrder
  <2>3. \A h \in Host \ {Core} : InOrder(h)'
    BY <1>1, <1>3, <2>1, <2>2 DEF CInv, Orderly, InOrder
  <2>4. InOrder(Core)'
    BY <1>1, <1>3, <2>1 DEF InOrder
  <2>5. HasKey'
    BY <1>1, <1>2, <1>3, <2>1 DEF CInv, HasKey
  <2> QED BY <1>4, <2>3, <2>4, <2>5 DEF CInv, Orderly
<1> QED BY <1>5, <1>6 DEF Proc

LEMMA SealKeeps ==
  ASSUME CInv, NEW h \in Host, Seal(h)
  PROVE  CInv'
<1>1. key[h] \in Key
  BY DEF Seal, CInv, HasKey, HoldingStep
<1> QED BY <1>1 DEF Seal, slots, CInv, TypeOK, HasKey, Orderly, InOrder

LEMMA StopKeeps ==
  ASSUME CInv, NEW p \in Proc, Stop(p)
  PROVE  CInv'
<1> USE KeyFacts
<1>1. /\ pc' = [pc EXCEPT ![p] = "idle"] /\ seen' = [seen EXCEPT ![p] = NoKey]
      /\ key' = [key EXCEPT ![p] = NoKey] /\ after' = [after EXCEPT ![p] = "idle"]
      /\ UNCHANGED <<turns, slots, reach, vault, index, record, ghosts>>
  BY DEF Stop
<1>2. TypeOK'
  BY DEF Stop, CInv, TypeOK, Step, slots, ghosts
<1>3. /\ pc'[p] = "idle"
      /\ \A q \in Proc \ {p} : /\ pc'[q] = pc[q] /\ seen'[q] = seen[q] /\ key'[q] = key[q]
                               /\ after'[q] = after[q]
  BY <1>1 DEF CInv, TypeOK
<1>4. HasKey'
  BY <1>3 DEF CInv, HasKey, HoldingStep
<1>5. \A h \in Host : InOrder(h)'
  BY <1>1, <1>3 DEF CInv, Orderly, InOrder
<1> QED BY <1>2, <1>4, <1>5 DEF CInv, Orderly

LEMMA TurnFacts ==
  ASSUME CInv, Turn
  PROVE  /\ \A p \in Proc : pc[p] = "idle"
         /\ turns' \in 0..MaxTurns
  BY CustodyConstants DEF Turn, CInv, TypeOK

(* A command that starts to retire the keys of old, or that has nothing to *)
(* retire.                                                                 *)
LEMMA CommandKeeps ==
  ASSUME CInv, Turn, NEW old \in SUBSET Key,
         NEW a \in {"install", "up", "clear"}, a = "install" => key'[Admin] \in Key,
         todo' = [todo EXCEPT ![Admin] = {<<"none", o>> : o \in old}],
         after' = [after EXCEPT ![Admin] = a],
         NEW s \in {"retire", "install"}, s = "install" => a = "install",
         pc' = [pc EXCEPT ![Admin] = s],
         key' \in [Proc -> Key \cup {NoKey}],
         source' \in [Proc -> {"none", "env", "keychain", "file"}],
         UNCHANGED <<slots, reach, vault, index, record, ghosts, seen, ring>>
  PROVE  CInv'
<1> USE KeyFacts
<1>1. \A o \in old : <<"none", o>> \in {"none", "keychain", "file"} \X Key
  OBVIOUS
<1>2. {<<"none", o>> : o \in old} \in SUBSET ({"none", "keychain", "file"} \X Key)
  BY <1>1
<1>3. todo' \in [Proc -> SUBSET ({"none", "keychain", "file"} \X Key)]
  BY <1>2 DEF CInv, TypeOK
<1>4. pc' \in [Proc -> Step] /\ after' \in [Proc -> Step]
  BY DEF CInv, TypeOK, Step
<1>5. TypeOK'
  BY <1>3, <1>4, TurnFacts DEF CInv, TypeOK, slots, ghosts
<1>6. pc'[Admin] = s /\ after'[Admin] = a /\ \A h \in Host : pc[h] = "idle" /\ pc'[h] = "idle"
  BY TurnFacts DEF CInv, TypeOK
<1>7. HasKey' /\ Orderly'
  BY <1>6, OneCommand
<1> QED BY <1>5, <1>7 DEF CInv

LEMMA BeginKeeps ==
  ASSUME CInv, Turn, NEW k \in Key, NEW extra \in SUBSET Key, BeginInstall(k, extra)
  PROVE  CInv'
<1> USE KeyFacts
<1> DEFINE old == Superseded(k, extra)
<1>1. old \in SUBSET Key
  BY CandidatesAreKeys DEF Superseded, CInv
<1>2. /\ todo' = [todo EXCEPT ![Admin] = {<<"none", o>> : o \in old}]
      /\ after' = [after EXCEPT ![Admin] = "install"]
      /\ pc' = [pc EXCEPT ![Admin] = IF old = {} THEN "install" ELSE "retire"]
      /\ key' = [key EXCEPT ![Admin] = k] /\ source' = [source EXCEPT ![Admin] = "none"]
      /\ UNCHANGED <<slots, reach, vault, index, record, ghosts, seen, ring>>
  BY DEF BeginInstall, Hold, Goto
<1> HIDE DEF old
<1>3. /\ key' \in [Proc -> Key \cup {NoKey}] /\ key'[Admin] \in Key
      /\ source' \in [Proc -> {"none", "env", "keychain", "file"}]
  BY <1>2 DEF CInv, TypeOK
<1> QED BY <1>1, <1>2, <1>3, CommandKeeps

LEMMA AdoptKeeps ==
  ASSUME CInv, NEW k \in Key, Adopt(k)
  PROVE  CInv'
  BY BeginKeeps DEF Adopt

LEMMA RetireKeyKeeps ==
  ASSUME CInv, NEW k \in Key, RetireKey(k)
  PROVE  CInv'
<1> USE KeyFacts
<1>1. /\ todo' = [todo EXCEPT ![Admin] = {<<"none", k>>}]
      /\ after' = [after EXCEPT ![Admin] = "clear"] /\ pc' = [pc EXCEPT ![Admin] = "retire"]
      /\ key' = [key EXCEPT ![Admin] = k]
      /\ source' = [source EXCEPT ![Admin] = IF env = k THEN "env" ELSE "file"]
      /\ Turn
      /\ UNCHANGED <<slots, reach, vault, index, record, ghosts, seen, ring>>
  BY DEF RetireKey, Hold, Goto
<1>2. {<<"none", k>>} = {<<"none", o>> : o \in {k}} /\ {k} \in SUBSET Key
  OBVIOUS
<1>3. /\ key' \in [Proc -> Key \cup {NoKey}] /\ key'[Admin] \in Key
      /\ source' \in [Proc -> {"none", "env", "keychain", "file"}]
  BY <1>1 DEF CInv, TypeOK
<1> QED BY <1>1, <1>2, <1>3, CommandKeeps

LEMMA ImportKeeps ==
  ASSUME CInv, NEW k \in OperatorKey, NEW extra \in SUBSET (OldKey \cup OperatorKey),
         Import(k, extra)
  PROVE  CInv'
<1> USE KeyFacts
<1>1. k \in Key /\ extra \in SUBSET Key /\ Turn
  BY DEF Import
<1>2. CASE record = k /\ k \in {env, KeychainKey, file}
  <2>1. /\ todo' = [todo EXCEPT ![Admin] = {<<"none", o>> : o \in extra \ {k}}]
        /\ after' = [after EXCEPT ![Admin] = "up"] /\ pc' = [pc EXCEPT ![Admin] = "retire"]
        /\ UNCHANGED <<slots, reach, vault, index, record, ghosts, seen, key, source, ring>>
    BY <1>2 DEF Import, Goto
  <2>2. /\ extra \ {k} \in SUBSET Key /\ key' \in [Proc -> Key \cup {NoKey}]
        /\ source' \in [Proc -> {"none", "env", "keychain", "file"}]
    BY <1>1, <2>1 DEF CInv, TypeOK
  <2> QED BY <1>1, <2>1, <2>2, CommandKeeps
<1>3. CASE ~(record = k /\ k \in {env, KeychainKey, file})
  <2>1. BeginInstall(k, extra)
    BY <1>3 DEF Import
  <2> QED BY <1>1, <2>1, BeginKeeps
<1> QED BY <1>2, <1>3

(* Install and ClearSlot: only the slots change.                           *)
LEMMA AdminStep ==
  ASSUME CInv, pc[Admin] \in {"install", "clear"}, NEW s \in {"note", "up", "refused"},
         s = "note" => key[Admin] \in Key,
         pc' = [pc EXCEPT ![Admin] = s],
         {env', keychain', file', legacy'} \subseteq Content, erased' \subseteq Key,
         UNCHANGED <<turns, reach, vault, index, record, sealed, minted,
                     clobbered, seen, key, source, ring, todo, after>>
  PROVE  CInv'
<1> USE KeyFacts
<1>1. TypeOK'
  BY DEF CInv, TypeOK, Step
<1>2. pc'[Admin] = s /\ \A h \in Host : pc[h] = "idle" /\ pc'[h] = "idle"
  BY HostsRest DEF CInv, TypeOK
<1>3. HasKey' /\ Orderly'
  BY <1>2, OneCommand
<1> QED BY <1>1, <1>3 DEF CInv

LEMMA InstallKeeps ==
  ASSUME CInv, Install
  PROVE  CInv'
<1> USE KeyFacts
<1>1. /\ pc[Admin] = "install" /\ key[Admin] \in Key
      /\ UNCHANGED <<turns, env, legacy, reach, vault, index, record, sealed, minted,
                     clobbered, seen, key, source, ring, todo, after>>
  BY DEF Install, CInv, HasKey
<1>2. /\ {env, keychain, file, legacy} \subseteq Content /\ erased \subseteq Key
      /\ key[Admin] \in Content
  BY <1>1 DEF CInv, TypeOK, Content
<1>3. PICK s \in {"note", "refused"} : pc' = [pc EXCEPT ![Admin] = s]
  BY DEF Install, Goto
<1>4. {env', keychain', file', legacy'} \subseteq Content /\ erased' \subseteq Key
  BY <1>1, <1>2 DEF Install
<1> QED BY <1>1, <1>3, <1>4, AdminStep

LEMMA ClearSlotKeeps ==
  ASSUME CInv, ClearSlot
  PROVE  CInv'
<1> USE KeyFacts
<1>1. /\ pc[Admin] = "clear" /\ pc' = [pc EXCEPT ![Admin] = "up"]
      /\ file' \in {NoKey, file} /\ legacy' \in {NoKey, legacy}
      /\ UNCHANGED <<turns, env, keychain, reach, vault, index, record, ghosts, seen, key,
                     source, ring, todo, after>>
  BY DEF ClearSlot, Goto
<1>2. /\ {env', keychain', file', legacy'} \subseteq Content /\ erased' \subseteq Key
  BY <1>1 DEF CInv, TypeOK, Content, ghosts
<1> QED BY <1>1, <1>2, AdminStep DEF ghosts

LEMMA OperatorKeeps ==
  ASSUME CInv, Turn, {env', keychain'} \subseteq Content, reach' \in {"rw", "ro", "off"},
         erased' \subseteq Key,
         UNCHANGED <<file, legacy, vault, index, record, sealed, minted,
                     clobbered, pc, seen, key, source, ring, todo, after>>
  PROVE  CInv'
<1>1. TypeOK'
  BY TurnFacts DEF CInv, TypeOK
<1> QED BY <1>1 DEF CInv, HasKey, Orderly, InOrder

LEMMA NextCInv == CInv /\ [Next]_vars => CInv'
<1> SUFFICES ASSUME CInv, [Next]_vars PROVE CInv'
  OBVIOUS
<1> USE KeyFacts
<1>1. ASSUME NEW h \in Host, Resolve(h) PROVE CInv'
  BY <1>1, StartKeeps, ClimbKeeps, StoreKeeps, VerifyKeeps, PublishKeeps, DecideKeeps,
     SealKeeps DEF Resolve
<1>2. ASSUME NEW p \in Proc, StoreRetired(p) \/ IndexRetired(p) \/ RecordKey(p) \/ Stop(p)
      PROVE  CInv'
  BY <1>2, StoreRetiredKeeps, IndexRetiredKeeps, RecordKeeps, StopKeeps
<1>3. ASSUME Command PROVE CInv'
  BY <1>3, AdoptKeeps, RetireKeyKeeps, ImportKeeps, InstallKeeps, ClearSlotKeeps DEF Command
<1>4. ASSUME NEW k \in OperatorKey \cup {NoKey}, SetEnv(k) PROVE CInv'
  <2>1. k \in Content
    BY DEF Content
  <2>2. {env', keychain'} \subseteq Content /\ reach' \in {"rw", "ro", "off"} /\ erased' \subseteq Key
    BY <1>4, <2>1 DEF SetEnv, CInv, TypeOK, ghosts
  <2> QED BY <1>4, <2>2, OperatorKeeps DEF SetEnv, ghosts
<1>5. ASSUME NEW r \in {"rw", "ro", "off"}, ReachKeychain(r) PROVE CInv'
  <2>1. {env', keychain'} \subseteq Content /\ erased' \subseteq Key
    BY <1>5 DEF ReachKeychain, CInv, TypeOK, slots, ghosts
  <2> QED BY <1>5, <2>1, OperatorKeeps DEF ReachKeychain, slots, ghosts
<1>6. CASE LoseKeychainEntry
  <2>1. /\ {env', keychain'} \subseteq Content /\ erased' \subseteq Key
        /\ reach' \in {"rw", "ro", "off"}
    BY <1>6 DEF LoseKeychainEntry, CInv, TypeOK, Content
  <2> QED BY <1>6, <2>1, OperatorKeeps DEF LoseKeychainEntry
<1>7. CASE UNCHANGED vars
  BY <1>7 DEF vars, slots, ghosts, CInv, TypeOK, HasKey, Orderly, InOrder
<1> QED BY <1>1, <1>2, <1>3, <1>4, <1>5, <1>6, <1>7 DEF Next

LEMMA Inductive == Spec => []CInv
  BY InitCInv, NextCInv, PTL DEF Spec

(* Every slot, index entry and step of the custody stays in its range: in  *)
(* particular only keys that were generated, held or brought are ever      *)
(* recorded, retired or sealed under.                                      *)
THEOREM CustodyTypes == Spec => []TypeOK
<1>1. CInv => TypeOK
  BY DEF CInv
<1> QED BY <1>1, Inductive, PTL

(* A host that found a check value runs under that key, and the record     *)
(* still names it: no command and no first record of Core can have moved   *)
(* it since the host read it.                                              *)
THEOREM HostsRunUnderTheRecord == Spec => []UnderTheRecordedKey
<1>1. CInv => UnderTheRecordedKey
  BY DEF CInv, Orderly, InOrder, UnderTheRecordedKey
<1> QED BY <1>1, Inductive, PTL

(***************************************************************************)
(* No key that sealed a value is lost                                      *)
(***************************************************************************)
Safe(k) == Held(k) \/ k \in erased \cup clobbered

(* What waits to be indexed, and what the index names, is in the vault.    *)
Stored ==
  /\ index \subseteq vault
  /\ \A p \in Proc : \A e \in todo[p] : e[1] = "none" \/ e \in vault

HostsSafe ==
  \A h \in Host : pc[h] \in {"decide", "retire", "note", "up"} => Safe(key[h])

(* Before it stores its key an installation has retired what it replaces.  *)
Installing == pc[Admin] = "install" \/ (pc[Admin] = "retire" /\ after[Admin] = "install")

RetiredFirst ==
  /\ pc[Admin] = "install" => todo[Admin] = {}
  /\ Installing => \A k \in Superseded(key[Admin], {}) :
                      k \in IndexedKeys \/ \E e \in todo[Admin] : e[2] = k

SInv ==
  /\ env \in OperatorKey \cup {NoKey}
  /\ Stored /\ KeysSurvive /\ HostsSafe /\ RetiredFirst

LEMMA InitSInv == Init => SInv
<1> SUFFICES ASSUME Init PROVE SInv
  OBVIOUS
<1>1. KeysSurvive
  BY DEF Init, KeysSurvive, Held
<1>2. Stored /\ HostsSafe /\ RetiredFirst /\ env \in OperatorKey \cup {NoKey}
  BY KeyFacts DEF Init, Stored, HostsSafe, RetiredFirst, Installing
<1> QED BY <1>1, <1>2 DEF SInv

(* The vault, the index and the ghosts only grow: a key is lost only where *)
(* a slot that holds it changes.                                           *)
LEMMA SafeUnlessSlot ==
  ASSUME NEW k, Safe(k),
         index \subseteq index', vault \subseteq vault',
         erased \subseteq erased', clobbered \subseteq clobbered',
         k \in {keychain, file, legacy} => Safe(k)'
  PROVE  Safe(k)'
  BY DEF Safe, Held

LEMMA LiveKeysAreSafe ==
  ASSUME CInv, SInv, NEW k \in Candidates
  PROVE  Safe(k)
<1>1. CASE k \in Retired
  BY <1>1 DEF Retired, Loadable, Safe, Held
<1>2. CASE k \in LiveCandidates
  <2>1. k \in {env, keychain, file, legacy} /\ k # NoKey
    BY <1>2, KeyFacts DEF LiveCandidates, KeychainKey
  <2>2. k = env => k \in OperatorKey
    BY <2>1 DEF SInv
  <2> QED BY <2>1, <2>2 DEF Safe, Held
<1> QED BY <1>1, <1>2 DEF Candidates

(* Each rewrite of a slot leaves its key elsewhere, or the ghosts name it. *)
LEMMA ClimbSafe ==
  ASSUME CInv, NEW h \in Host, Climb(h), NEW k \in Key, Safe(k)
  PROVE  Safe(k)'
<1>1. /\ UNCHANGED <<vault, index, erased, clobbered>>
      /\ UNCHANGED <<keychain, file>>
      /\ legacy' = legacy \/ (legacy = keychain)
  BY DEF Climb, Take, Refuse, FallBack, slots, Hold, Goto
<1> QED BY <1>1 DEF Safe, Held

LEMMA StoreSafe ==
  ASSUME CInv, NEW h \in Host, StoreInKeychain(h), NEW k \in Key, Safe(k)
  PROVE  Safe(k)'
<1>1. /\ UNCHANGED <<vault, index, erased, file, legacy>>
      /\ \/ UNCHANGED <<keychain, clobbered>>
         \/ /\ keychain' = key[h]
            /\ clobbered' = clobbered \cup ({keychain} \cap (Key \ {key[h]}))
  BY DEF StoreInKeychain, Take, Refuse, slots
<1> QED BY <1>1 DEF Safe, Held

LEMMA VerifySafe ==
  ASSUME CInv, NEW h \in Host, VerifyKeychain(h), NEW k \in Key, Safe(k)
  PROVE  Safe(k)'
<1>1. /\ UNCHANGED <<vault, index, erased, clobbered, keychain, file>>
      /\ legacy' = legacy \/ legacy = keychain
  BY DEF VerifyKeychain, Refuse, slots
<1> QED BY <1>1 DEF Safe, Held

LEMMA PublishSafe ==
  ASSUME CInv, NEW h \in Host, PublishFile(h), NEW k \in Key, Safe(k)
  PROVE  Safe(k)'
<1>1. /\ UNCHANGED <<vault, index, erased, clobbered, keychain, legacy>>
      /\ file' = file \/ file = NoKey
  BY DEF PublishFile, Refuse, slots
<1> QED BY <1>1, KeyFacts DEF Safe, Held

(* The key an installation replaces is in the retired set; a key file it   *)
(* writes over may be neither the recorded nor the persistent key, and is  *)
(* then lost.                                                              *)
LEMMA InstallSafe ==
  ASSUME CInv, SInv, Install, NEW k \in Key, Safe(k)
  PROVE  Safe(k)'
<1>1. \A o \in Superseded(key[Admin], {}) : Held(o)'
  <2>1. /\ todo[Admin] = {} /\ index \subseteq vault /\ index' = index /\ vault' = vault
    BY DEF Install, SInv, RetiredFirst, Stored
  <2>2. \A o \in Superseded(key[Admin], {}) : o \in IndexedKeys
    BY <2>1 DEF Install, SInv, RetiredFirst, Installing
  <2> QED BY <2>1, <2>2 DEF Held, IndexedKeys
<1>2. UNCHANGED <<vault, index, legacy, clobbered>> /\ erased \subseteq erased'
  BY DEF Install
<1>3. CASE reach = "rw"
  <2>1. keychain' = key[Admin] /\ UNCHANGED <<file, erased>>
    BY <1>3 DEF Install
  <2>2. ASSUME k = keychain, k # key[Admin] PROVE Held(k)'
    BY <1>1, <1>3, <2>2 DEF Superseded, Persistent, KeychainKey
  <2> QED BY <1>2, <2>1, <2>2 DEF Safe, Held
<1>4. CASE reach # "rw"
  <2>1. \/ UNCHANGED <<keychain, file, erased>>
        \/ /\ file' = key[Admin] /\ keychain' = keychain
           /\ erased' = erased \cup (({file} \cap Key) \ ({key[Admin], record} \cup Persistent))
    BY <1>4 DEF Install
  <2>2. ASSUME k = file, k # key[Admin], k \in {record} \cup Persistent PROVE Held(k)'
    BY <1>1, <2>2 DEF Superseded, LiveCandidates
  <2> QED BY <1>2, <2>1, <2>2 DEF Safe, Held
<1> QED BY <1>3, <1>4

LEMMA ClearSafe ==
  ASSUME CInv, ClearSlot, NEW k \in Key, Safe(k)
  PROVE  Safe(k)'
<1>1. /\ UNCHANGED <<vault, index, keychain, ghosts>>
      /\ file' = file \/ (file = key[Admin] /\ key[Admin] \in Retired)
      /\ legacy' = legacy \/ (legacy = key[Admin] /\ key[Admin] \in Retired)
  BY DEF ClearSlot
<1>2. \A o \in Retired : Held(o)'
  BY <1>1 DEF Retired, Loadable, Held
<1> QED BY <1>1, <1>2 DEF Safe, Held, ghosts

(* The other steps leave the slots alone.                                  *)
LEMMA QuietSafe ==
  ASSUME NEW k, Safe(k), UNCHANGED <<keychain, file, legacy, erased, clobbered>>,
         index \subseteq index', vault \subseteq vault'
  PROVE  Safe(k)'
  BY DEF Safe, Held

LEMMA SafeStays ==
  ASSUME CInv, SInv, [Next]_vars, NEW k \in Key, Safe(k)
  PROVE  Safe(k)'
<1>1. ASSUME NEW h \in Host, Resolve(h) PROVE Safe(k)'
  <2>1. StartResolve(h) \/ Decide(h) \/ Seal(h) =>
          UNCHANGED <<keychain, file, legacy, erased, clobbered, index, vault>>
    BY DEF StartResolve, Decide, Seal, slots, ghosts
  <2>2. CASE StartResolve(h) \/ Decide(h) \/ Seal(h)
    BY <2>1, <2>2, QuietSafe
  <2> QED BY <1>1, <2>2, ClimbSafe, StoreSafe, VerifySafe, PublishSafe DEF Resolve
<1>2. ASSUME NEW p \in Proc, StoreRetired(p) \/ IndexRetired(p) \/ RecordKey(p) \/ Stop(p)
      PROVE  Safe(k)'
  <2>1. UNCHANGED <<keychain, file, legacy, erased, clobbered>>
    BY <1>2 DEF StoreRetired, IndexRetired, RecordKey, Stop, slots, ghosts
  <2>2. index \subseteq index' /\ vault \subseteq vault'
    BY <1>2 DEF StoreRetired, IndexRetired, RecordKey, Stop
  <2> QED BY <2>1, <2>2, QuietSafe
<1>3. ASSUME Command PROVE Safe(k)'
  <2>1. CASE \E o \in Key : Adopt(o) \/ RetireKey(o)
    <3>1. UNCHANGED <<keychain, file, legacy, erased, clobbered, index, vault>>
      BY <2>1 DEF Adopt, BeginInstall, RetireKey, slots, ghosts
    <3> QED BY <3>1, QuietSafe
  <2>2. CASE \E o \in OperatorKey, extra \in SUBSET (OldKey \cup OperatorKey) : Import(o, extra)
    <3>1. UNCHANGED <<keychain, file, legacy, erased, clobbered, index, vault>>
      BY <2>2 DEF Import, BeginInstall, slots, ghosts
    <3> QED BY <3>1, QuietSafe
  <2> QED BY <1>3, <2>1, <2>2, InstallSafe, ClearSafe DEF Command
<1>4. ASSUME (\E o \in OperatorKey \cup {NoKey} : SetEnv(o))
               \/ (\E r \in {"rw", "ro", "off"} : ReachKeychain(r)) \/ UNCHANGED vars
      PROVE  Safe(k)'
  <2>1. UNCHANGED <<keychain, file, legacy, erased, clobbered, index, vault>>
    BY <1>4 DEF SetEnv, ReachKeychain, vars, slots, ghosts
  <2> QED BY <2>1, QuietSafe
<1>5. CASE LoseKeychainEntry
  BY <1>5 DEF LoseKeychainEntry, Safe, Held
<1> QED BY <1>1, <1>2, <1>3, <1>4, <1>5 DEF Next

LEMMA SealedStaySafe ==
  ASSUME CInv, SInv, [Next]_vars
  PROVE  KeysSurvive'
<1>1. ASSUME NEW k \in sealed' PROVE Safe(k)'
  <2>1. sealed' = sealed \/ \E h \in Host : Seal(h)
    BY DEF Next, vars, Resolve, StartResolve, Climb, StoreInKeychain, VerifyKeychain,
           PublishFile, Decide, StoreRetired, IndexRetired, RecordKey, Stop, Command,
           Adopt, BeginInstall, RetireKey, Import, Install, ClearSlot, SetEnv,
           ReachKeychain, LoseKeychainEntry, ghosts
  <2>2. CASE k \in sealed
    BY <2>2, SafeStays DEF SInv, KeysSurvive, Safe, CInv, TypeOK
  <2>3. CASE k \notin sealed
    <3>1. PICK h \in Host : Seal(h) /\ k = key[h]
      BY <1>1, <2>1, <2>3 DEF Seal
    <3>2. Safe(k) /\ k \in Key
      BY <3>1 DEF Seal, SInv, HostsSafe, CInv, HasKey, HoldingStep
    <3> QED BY <3>2, SafeStays
  <2> QED BY <2>2, <2>3
<1> QED BY <1>1 DEF KeysSurvive, Safe

LEMMA EnvStays ==
  ASSUME SInv, [Next]_vars
  PROVE  env' \in OperatorKey \cup {NoKey}
<1>1. env' = env \/ \E k \in OperatorKey \cup {NoKey} : SetEnv(k)
  <2>1. ASSUME NEW h \in Host, Resolve(h) PROVE env' = env
    BY <2>1 DEF Resolve, StartResolve, Climb, StoreInKeychain, VerifyKeychain,
                PublishFile, Decide, Seal, Take, Refuse, FallBack, slots
  <2>2. ASSUME NEW p \in Proc, StoreRetired(p) \/ IndexRetired(p) \/ RecordKey(p) \/ Stop(p)
        PROVE  env' = env
    BY <2>2 DEF StoreRetired, IndexRetired, RecordKey, Stop, slots
  <2>3. ASSUME Command PROVE env' = env
    BY <2>3 DEF Command, Adopt, BeginInstall, RetireKey, Import, Install, ClearSlot, slots
  <2> QED BY <2>1, <2>2, <2>3 DEF Next, ReachKeychain, LoseKeychainEntry, vars, slots
<1> QED BY <1>1 DEF SetEnv, SInv

LEMMA StoredStays ==
  ASSUME CInv, SInv, [Next]_vars
  PROVE  Stored'
<1> USE KeyFacts
<1>1. ASSUME UNCHANGED <<vault, index, todo>> PROVE Stored'
  BY <1>1 DEF SInv, Stored
<1>2. ASSUME NEW p \in Proc, UNCHANGED <<vault, index>>,
             NEW T, todo' = [todo EXCEPT ![p] = T], \A e \in T : e[1] = "none"
      PROVE  Stored'
  BY <1>2 DEF SInv, Stored, CInv, TypeOK
<1>3. ASSUME NEW h \in Host, Resolve(h) PROVE Stored'
  <2>1. UNCHANGED <<vault, index>>
    BY <1>3 DEF Resolve, StartResolve, Climb, StoreInKeychain, VerifyKeychain,
                PublishFile, Decide, Seal
  <2>2. \/ todo' = todo
        \/ \E T : todo' = [todo EXCEPT ![h] = T] /\ \A e \in T : e[1] = "none"
    <3>1. CASE Decide(h)
      <4>1. todo' = todo \/ \E k \in Key \cup {NoKey}, then \in {"note", "up"} : Recover(h, k, then)
        BY <3>1, CandidatesAreKeys DEF Decide, ComeUp, Mismatch, CInv, TypeOK
      <4>2. ASSUME NEW T, todo' = [todo EXCEPT ![h] = T],
                   T = {} \/ T = {<<"none", key[h]>>}
            PROVE  \A e \in T : e[1] = "none"
        BY <4>2
      <4>3. \/ todo' = todo
            \/ todo' = [todo EXCEPT ![h] = {}]
            \/ todo' = [todo EXCEPT ![h] = {<<"none", key[h]>>}]
        BY <4>1 DEF Recover
      <4>4. \/ todo' = todo
            \/ \E T : todo' = [todo EXCEPT ![h] = T] /\ (T = {} \/ T = {<<"none", key[h]>>})
        BY <4>3
      <4> QED BY <4>2, <4>4
    <3> QED BY <1>3, <3>1 DEF Resolve, StartResolve, Climb, StoreInKeychain, VerifyKeychain,
                              PublishFile, Seal
  <2> QED BY <1>1, <1>2, <2>1, <2>2
<1>4. ASSUME NEW p \in Proc, StoreRetired(p) PROVE Stored'
  <2>1. index' = index /\ \E e \in todo[p] :
          \/ todo' = [todo EXCEPT ![p] = @ \ {e}] /\ vault' = vault
          \/ UNCHANGED <<vault, todo>>
          \/ \E shelf : /\ vault' = vault \cup {shelf}
                        /\ todo' = [todo EXCEPT ![p] = (@ \ {e}) \cup {shelf}]
    BY <1>4 DEF StoreRetired, Drop
  <2> QED BY <2>1 DEF SInv, Stored, CInv, TypeOK
<1>5. ASSUME NEW p \in Proc, IndexRetired(p) PROVE Stored'
  <2>1. vault' = vault /\ \E e \in todo[p] : /\ e[1] # "none" /\ index' = index \cup {e}
                                             /\ todo' = [todo EXCEPT ![p] = @ \ {e}]
    BY <1>5 DEF IndexRetired, Drop
  <2> QED BY <2>1 DEF SInv, Stored, CInv, TypeOK
<1>6. ASSUME NEW p \in Proc, RecordKey(p) \/ Stop(p) PROVE Stored'
  BY <1>6, <1>1, <1>2 DEF RecordKey, Stop
<1>7. ASSUME Command PROVE Stored'
  <2>1. UNCHANGED <<vault, index>>
    BY <1>7 DEF Command, Adopt, BeginInstall, RetireKey, Import, Install, ClearSlot
  <2>2. \/ todo' = todo
        \/ \E T : todo' = [todo EXCEPT ![Admin] = T] /\ \A e \in T : e[1] = "none"
    <3>1. ASSUME NEW S, todo' = [todo EXCEPT ![Admin] = {<<"none", o>> : o \in S}]
          PROVE  \E T : todo' = [todo EXCEPT ![Admin] = T] /\ \A e \in T : e[1] = "none"
      <4>1. \A e \in {<<"none", o>> : o \in S} : e[1] = "none"
        OBVIOUS
      <4> DEFINE T == {<<"none", o>> : o \in S}
      <4>2. todo' = [todo EXCEPT ![Admin] = T] /\ \A e \in T : e[1] = "none"
        BY <3>1, <4>1
      <4> HIDE DEF T
      <4> QED BY <4>2
    <3>2. ASSUME NEW k \in Key, RetireKey(k)
          PROVE  todo' = [todo EXCEPT ![Admin] = {<<"none", o>> : o \in {k}}]
      BY <3>2 DEF RetireKey
    <3>3. ASSUME NEW k, NEW extra, BeginInstall(k, extra)
          PROVE  \E S : todo' = [todo EXCEPT ![Admin] = {<<"none", o>> : o \in S}]
      BY <3>3 DEF BeginInstall
    <3>4. ASSUME NEW k, NEW extra, Import(k, extra)
          PROVE  \E S : todo' = [todo EXCEPT ![Admin] = {<<"none", o>> : o \in S}]
      BY <3>3, <3>4 DEF Import
    <3>5. ASSUME NEW k, Adopt(k)
          PROVE  \E S : todo' = [todo EXCEPT ![Admin] = {<<"none", o>> : o \in S}]
      BY <3>3, <3>5 DEF Adopt
    <3> QED BY <1>7, <3>1, <3>2, <3>4, <3>5 DEF Command, Install, ClearSlot
  <2> QED BY <1>1, <1>2, <2>1, <2>2
<1> QED BY <1>1, <1>3, <1>4, <1>5, <1>6, <1>7
        DEF Next, SetEnv, ReachKeychain, LoseKeychainEntry, vars

(* A host that arrives at its decision, or that comes up by a refusal,     *)
(* holds the key of a slot, of the operator or of the retired set.         *)
RunsSafe(h) == pc[h] \in {"decide", "retire", "note", "up"} => Safe(key[h])

LEMMA RefuseArrives ==
  ASSUME CInv, SInv, NEW h \in Host, Refuse(h),
         UNCHANGED <<vault, index, erased>>, clobbered \subseteq clobbered'
  PROVE  RunsSafe(h)'
<1>1. CASE seen[h] \in Candidates
  <2>1. Safe(seen[h])
    BY <1>1, LiveKeysAreSafe
  <2>2. key'[h] = seen[h] /\ UNCHANGED <<keychain, file, legacy>>
    BY <1>1, KeyFacts DEF Refuse, Hold, slots, CInv, TypeOK
  <2> QED BY <2>1, <2>2 DEF RunsSafe, Safe, Held
<1>2. CASE seen[h] \notin Candidates
  BY <1>2, KeyFacts DEF Refuse, Goto, RunsSafe, CInv, TypeOK
<1> QED BY <1>1, <1>2

LEMMA ClimbArrives ==
  ASSUME CInv, SInv, NEW h \in Host, Climb(h)
  PROVE  RunsSafe(h)'
<1> USE KeyFacts
<1>1. /\ pc[h] = "ladder" /\ UNCHANGED <<vault, index, erased, clobbered>>
      /\ pc \in [Proc -> Step] /\ key \in [Proc -> Key \cup {NoKey}]
  BY DEF Climb, CInv, TypeOK
<1>2. ASSUME Refuse(h) PROVE RunsSafe(h)'
  BY <1>1, <1>2, RefuseArrives
<1>3. CASE env \in Key /\ Take(h, env, "env", "decide")
  <2>1. key'[h] = env /\ env \in OperatorKey
    BY <1>1, <1>3 DEF Take, Hold, SInv
  <2> QED BY <2>1 DEF RunsSafe, Safe, Held
<1>4. CASE Hold(h, keychain, "keychain") /\ keychain' = keychain
  BY <1>1, <1>4 DEF Hold, RunsSafe, Safe, Held
<1>5. ASSUME NEW s \in {"store", "publish"}, FallBack(h, s) PROVE RunsSafe(h)'
  <2>1. Refuse(h) \/ Goto(h, s)
    BY <1>5 DEF FallBack, Take
  <2> QED BY <1>1, <1>2, <2>1 DEF Goto, RunsSafe
<1>6. CASE file \in Key /\ AllowFile /\ FallBack(h, "decide")
  <2>1. key'[h] = file /\ file' = file
    BY <1>1, <1>6 DEF FallBack, Take, Hold, slots
  <2> QED BY <2>1 DEF RunsSafe, Safe, Held
<1>7. \/ env \in Key /\ Take(h, env, "env", "decide")
      \/ Refuse(h)
      \/ Hold(h, keychain, "keychain") /\ keychain' = keychain
      \/ \E s \in {"store", "publish"} : FallBack(h, s)
      \/ file \in Key /\ AllowFile /\ FallBack(h, "decide")
  BY DEF Climb
<1> QED BY <1>2, <1>3, <1>4, <1>5, <1>6, <1>7

LEMMA StoreArrives ==
  ASSUME CInv, SInv, NEW h \in Host, StoreInKeychain(h)
  PROVE  RunsSafe(h)'
<1> USE KeyFacts
<1>1. \/ Goto(h, "verify")
      \/ Goto(h, "publish")
      \/ Refuse(h) /\ UNCHANGED clobbered
  BY DEF StoreInKeychain, Take
<1>2. UNCHANGED <<vault, index, erased>> /\ pc \in [Proc -> Step]
  BY DEF StoreInKeychain, CInv, TypeOK
<1> QED BY <1>1, <1>2, RefuseArrives DEF Goto, RunsSafe

LEMMA VerifyArrives ==
  ASSUME CInv, SInv, NEW h \in Host, VerifyKeychain(h)
  PROVE  RunsSafe(h)'
<1> USE KeyFacts
<1>1. UNCHANGED <<vault, index, erased, clobbered>> /\ key[h] \in Key
  BY DEF VerifyKeychain, CInv, HasKey, HoldingStep
<1>2. CASE KeychainKey = key[h]
  <2>1. key'[h] = keychain /\ keychain' = keychain
    BY <1>1, <1>2 DEF VerifyKeychain, Hold, KeychainKey, CInv, TypeOK
  <2> QED BY <2>1 DEF RunsSafe, Safe, Held
<1>3. CASE KeychainKey # key[h]
  BY <1>1, <1>3, RefuseArrives DEF VerifyKeychain
<1> QED BY <1>2, <1>3

LEMMA PublishArrives ==
  ASSUME CInv, SInv, NEW h \in Host, PublishFile(h)
  PROVE  RunsSafe(h)'
<1> USE KeyFacts
<1>1. UNCHANGED <<vault, index, erased, clobbered>>
  BY DEF PublishFile
<1>2. CASE file = Bad
  BY <1>1, <1>2, RefuseArrives DEF PublishFile
<1>3. CASE file # Bad
  <2>1. key'[h] = file'
    BY <1>3 DEF PublishFile, Hold, CInv, TypeOK
  <2> QED BY <2>1 DEF RunsSafe, Safe, Held
<1> QED BY <1>2, <1>3

LEMMA DecideArrives ==
  ASSUME CInv, SInv, NEW h \in Host, Decide(h)
  PROVE  RunsSafe(h)'
<1> USE KeyFacts
<1>1. pc[h] = "decide" /\ UNCHANGED <<slots, vault, index, ghosts>>
  BY DEF Decide
<1>2. Safe(key[h])
  BY <1>1 DEF SInv, HostsSafe
<1>3. key'[h] = key[h] \/ key'[h] \in Candidates
  BY DEF Decide, ComeUp, Mismatch, Recover, Hold, CInv, TypeOK
<1>4. Safe(key'[h])
  BY <1>2, <1>3, LiveKeysAreSafe
<1> QED BY <1>1, <1>4 DEF RunsSafe, Safe, Held, slots, ghosts

LEMMA HostsStaySafe ==
  ASSUME CInv, SInv, [Next]_vars
  PROVE  HostsSafe'
<1> USE KeyFacts
<1> SUFFICES ASSUME NEW h \in Host PROVE RunsSafe(h)'
  BY DEF HostsSafe, RunsSafe
<1>1. ASSUME pc'[h] \in {"decide", "retire", "note", "up"} =>
               pc[h] \in {"decide", "retire", "note", "up"} /\ key'[h] = key[h]
      PROVE  RunsSafe(h)'
  <2>1. SUFFICES ASSUME pc'[h] \in {"decide", "retire", "note", "up"}
                 PROVE  Safe(key[h])'
    BY DEF RunsSafe
  <2>2. key'[h] = key[h] /\ key[h] \in Key /\ Safe(key[h])
    BY <1>1, <2>1 DEF CInv, HasKey, HoldingStep, SInv, HostsSafe
  <2>3. PICK k \in Key : k = key[h]
    BY <2>2
  <2>4. Safe(k)'
    BY <2>2, <2>3, SafeStays
  <2> QED BY <2>2, <2>3, <2>4 DEF Safe
<1>2. ASSUME NEW g \in Host, Resolve(g) PROVE RunsSafe(h)'
  <2>1. CASE g # h
    <3>1. pc'[h] = pc[h] /\ key'[h] = key[h]
      BY <1>2, <2>1 DEF Resolve, StartResolve, Climb, StoreInKeychain, VerifyKeychain,
         PublishFile, Decide, Seal, Take, Refuse, FallBack, ComeUp, Mismatch, Recover,
         Hold, Goto, CInv, TypeOK
    <3> QED BY <1>1, <3>1
  <2>2. CASE g = h
    <3>1. CASE StartResolve(h) \/ Seal(h)
      BY <1>1, <3>1 DEF StartResolve, Seal, Goto, CInv, TypeOK
    <3> QED BY <1>2, <2>2, <3>1, ClimbArrives, StoreArrives, VerifyArrives, PublishArrives,
            DecideArrives DEF Resolve
  <2> QED BY <2>1, <2>2
<1>3. ASSUME NEW p \in Proc, StoreRetired(p) \/ IndexRetired(p) \/ RecordKey(p) \/ Stop(p)
      PROVE  RunsSafe(h)'
  <2>1. CASE p # h
    <3>1. pc'[h] = pc[h] /\ (key'[h] = key[h])
      BY <1>3, <2>1 DEF StoreRetired, IndexRetired, RecordKey, Stop, Drop, Goto, CInv, TypeOK
    <3> QED BY <1>1, <3>1
  <2>2. CASE p = h /\ ~Stop(p)
    BY <1>1, <1>3, <2>2 DEF StoreRetired, IndexRetired, RecordKey, Goto
  <2>3. CASE p = h /\ Stop(p)
    BY <1>1, <2>3 DEF Stop, CInv, TypeOK
  <2> QED BY <2>1, <2>2, <2>3
<1>4. ASSUME Command PROVE RunsSafe(h)'
  <2>1. pc'[h] = pc[h] /\ key'[h] = key[h]
    BY <1>4 DEF Command, Adopt, RetireKey, Import, BeginInstall, Install, ClearSlot, Hold, Goto,
                CInv, TypeOK
  <2> QED BY <1>1, <2>1
<1>5. ASSUME UNCHANGED <<pc, key>> PROVE RunsSafe(h)'
  BY <1>1, <1>5
<1> QED BY <1>2, <1>3, <1>4, <1>5 DEF Next, SetEnv, ReachKeychain, LoseKeychainEntry, vars

(* Nothing but the command itself steps while it installs a key.           *)
LEMMA BeginsRetiredFirst ==
  ASSUME CInv, NEW k, NEW extra, BeginInstall(k, extra), k \in Key
  PROVE  RetiredFirst'
<1> USE KeyFacts
<1> DEFINE old == Superseded(k, extra)
<1>1. /\ pc'[Admin] = (IF old = {} THEN "install" ELSE "retire") /\ key'[Admin] = k
      /\ todo'[Admin] = {<<"none", o>> : o \in old}
      /\ UNCHANGED <<slots, reach, record>>
  BY DEF BeginInstall, Hold, Goto, CInv, TypeOK
<1>2. Superseded(key[Admin], {})' \subseteq old
  BY <1>1 DEF Superseded, Persistent, LiveCandidates, KeychainKey, slots
<1>3. \A o \in old : <<"none", o>> \in todo'[Admin] /\ <<"none", o>>[2] = o
  BY <1>1
<1>4. \A o \in Superseded(key[Admin], {})' : \E e \in todo'[Admin] : e[2] = o
  BY <1>2, <1>3
<1>5. old = {} => todo'[Admin] = {}
  BY <1>1
<1> HIDE DEF old
<1> QED BY <1>1, <1>4, <1>5 DEF RetiredFirst

LEMMA RetiredFirstStays ==
  ASSUME CInv, SInv, [Next]_vars
  PROVE  RetiredFirst'
<1> USE KeyFacts
<1>1. ASSUME ~Installing' PROVE RetiredFirst'
  BY <1>1 DEF RetiredFirst, Installing
<1>2. ASSUME UNCHANGED <<slots, reach, record, pc, key, todo, after>>, IndexedKeys \subseteq IndexedKeys'
      PROVE  RetiredFirst'
  BY <1>2 DEF SInv, RetiredFirst, Installing, Superseded, Persistent, LiveCandidates,
              KeychainKey, slots
<1>3. ASSUME NEW h \in Host, Resolve(h) PROVE RetiredFirst'
  <2>1. pc'[Admin] = pc[Admin]
    BY <1>3 DEF Resolve, StartResolve, Climb, StoreInKeychain, VerifyKeychain,
         PublishFile, Decide, Seal, Take, Refuse, FallBack, ComeUp, Mismatch, Recover,
         Hold, Goto, CInv, TypeOK
  <2>2. pc[Admin] = "idle"
    <3>1. pc[h] # "idle" \/ StartResolve(h)
      BY <1>3 DEF Resolve, Climb, StoreInKeychain, VerifyKeychain, PublishFile, Decide, Seal
    <3> QED BY <3>1 DEF StartResolve, CInv, Orderly, InOrder
  <2> QED BY <1>1, <2>1, <2>2 DEF Installing
<1>4. ASSUME NEW p \in Proc, StoreRetired(p) \/ IndexRetired(p) \/ RecordKey(p) \/ Stop(p),
             p # Admin
      PROVE  RetiredFirst'
  <2>1. p \in Host /\ pc[p] # "idle"
    BY <1>4 DEF Proc, StoreRetired, IndexRetired, RecordKey, Stop
  <2>2. pc[Admin] = "idle"
    BY <2>1 DEF CInv, Orderly, InOrder
  <2>3. pc'[Admin] = pc[Admin]
    BY <1>4 DEF StoreRetired, IndexRetired, RecordKey, Stop, Drop, Goto, CInv, TypeOK
  <2> QED BY <1>1, <2>2, <2>3 DEF Installing
<1>5. ASSUME StoreRetired(Admin) \/ IndexRetired(Admin) PROVE RetiredFirst'
  <2>1. SUFFICES ASSUME Installing' PROVE RetiredFirst'
    BY <1>1
  <2>2. /\ UNCHANGED <<slots, reach, record, key, after>> /\ pc[Admin] = "retire"
        /\ pc \in [Proc -> Step]
        /\ todo \in [Proc -> SUBSET ({"none", "keychain", "file"} \X Key)]
    BY <1>5 DEF StoreRetired, IndexRetired, CInv, TypeOK
  <2>3. Superseded(key[Admin], {})' = Superseded(key[Admin], {})
    BY <2>2 DEF Superseded, Persistent, LiveCandidates, KeychainKey, slots
  <2>4. PICK e \in todo[Admin] :
          \/ Drop(Admin, e) /\ index' = index /\ e[2] \in IndexedKeys
          \/ Goto(Admin, "refused")
          \/ /\ \E shelf : shelf[2] = e[2] /\ todo' = [todo EXCEPT ![Admin] = (@ \ {e}) \cup {shelf}]
             /\ pc' = pc /\ index' = index
          \/ Drop(Admin, e) /\ index' = index \cup {e}
    <3>1. CASE StoreRetired(Admin)
      <4>1. PICK e \in todo[Admin] :
              IF e[2] \in IndexedKeys
              THEN Drop(Admin, e) /\ UNCHANGED vault
              ELSE IF Cardinality(index) >= MaxRetired
              THEN Goto(Admin, "refused")
              ELSE /\ todo' = [todo EXCEPT ![Admin] = (@ \ {e}) \cup
                                 {<<IF PrefersKeychain(Admin) THEN "keychain" ELSE "file", e[2]>>}]
                   /\ UNCHANGED pc
        BY <3>1 DEF StoreRetired
      <4>2. index' = index
        BY <3>1 DEF StoreRetired
      <4>3. \A c : <<c, e[2]>>[2] = e[2]
        OBVIOUS
      <4> QED BY <4>1, <4>2, <4>3
    <3>2. CASE IndexRetired(Admin)
      BY <3>2 DEF IndexRetired
    <3> QED BY <1>5, <3>1, <3>2
  <2>5. pc'[Admin] # "refused"
    BY <2>1 DEF Installing
  <2>6. ~Goto(Admin, "refused")
    BY <2>2, <2>5 DEF Goto
  <2>7. IndexedKeys' = {x[2] : x \in index'}
    BY DEF IndexedKeys
  <2>8. after[Admin] = "install"
    BY <2>1, <2>2, <2>4, <2>6 DEF Installing, Drop, Goto
  <2>9. \A k \in Superseded(key[Admin], {}) :
          k \in IndexedKeys \/ \E x \in todo[Admin] : x[2] = k
    BY <2>2, <2>8 DEF SInv, RetiredFirst, Installing
  <2>10. ASSUME NEW k \in Superseded(key[Admin], {})
         PROVE  k \in IndexedKeys' \/ \E x \in todo'[Admin] : x[2] = k
    <3>1. CASE k \in IndexedKeys
      BY <2>4, <2>6, <2>7, <3>1 DEF IndexedKeys
    <3>2. CASE k = e[2]
      <4>1. CASE Drop(Admin, e) /\ index' = index /\ e[2] \in IndexedKeys
        BY <3>1, <3>2, <4>1
      <4>2. CASE Drop(Admin, e) /\ index' = index \cup {e}
        BY <3>2, <4>2, <2>7
      <4>3. ASSUME NEW shelf, shelf[2] = e[2],
                   todo' = [todo EXCEPT ![Admin] = (@ \ {e}) \cup {shelf}]
            PROVE  \E x \in todo'[Admin] : x[2] = k
        BY <2>2, <3>2, <4>3
      <4> QED BY <2>4, <2>6, <4>1, <4>2, <4>3
    <3>3. CASE k # e[2] /\ k \notin IndexedKeys
      <4>1. PICK x \in todo[Admin] : x[2] = k
        BY <2>9, <3>3
      <4>2. x # e /\ todo[Admin] \ {e} \subseteq todo'[Admin]
        BY <2>2, <2>4, <2>6, <3>3, <4>1 DEF Drop
      <4> QED BY <4>1, <4>2
    <3> QED BY <3>1, <3>2, <3>3
  <2>11. pc'[Admin] = "install" => todo'[Admin] = {}
    BY <2>2, <2>4, <2>6, <2>8 DEF Drop, Goto
  <2>12. RetiredFirst' = (/\ pc'[Admin] = "install" => todo'[Admin] = {}
                          /\ Installing' => \A k \in Superseded(key[Admin], {})' :
                               k \in IndexedKeys' \/ \E x \in todo'[Admin] : x[2] = k)
    BY DEF RetiredFirst
  <2> QED BY <2>3, <2>10, <2>11, <2>12
<1>6. ASSUME RecordKey(Admin) \/ Stop(Admin) PROVE RetiredFirst'
  BY <1>1, <1>6 DEF RecordKey, Stop, Goto, Installing, CInv, TypeOK
<1>7. ASSUME Command PROVE RetiredFirst'
  <2>1. ASSUME NEW k \in Key, Adopt(k) PROVE RetiredFirst'
    BY <2>1, BeginsRetiredFirst DEF Adopt
  <2>2. ASSUME NEW k \in Key, RetireKey(k) PROVE RetiredFirst'
    BY <1>1, <2>2 DEF RetireKey, Goto, Installing, CInv, TypeOK
  <2>3. ASSUME NEW k \in OperatorKey, NEW extra, Import(k, extra) PROVE RetiredFirst'
    <3>1. BeginInstall(k, extra) \/ (Goto(Admin, "retire") /\ after' = [after EXCEPT ![Admin] = "up"])
      BY <2>3 DEF Import
    <3>2. CASE BeginInstall(k, extra)
      BY <3>2, BeginsRetiredFirst
    <3>3. CASE Goto(Admin, "retire") /\ after' = [after EXCEPT ![Admin] = "up"]
      BY <1>1, <3>3 DEF Goto, Installing, CInv, TypeOK
    <3> QED BY <3>1, <3>2, <3>3
  <2>4. ASSUME Install \/ ClearSlot PROVE RetiredFirst'
    BY <1>1, <2>4 DEF Install, ClearSlot, Goto, Installing, CInv, TypeOK
  <2> QED BY <1>7, <2>1, <2>2, <2>3, <2>4 DEF Command
<1>8. ASSUME Turn, pc' = pc PROVE RetiredFirst'
  BY <1>1, <1>8, TurnFacts DEF Installing
<1>9. CASE UNCHANGED vars
  BY <1>2, <1>9 DEF vars, IndexedKeys
<1> QED BY <1>3, <1>4, <1>5, <1>6, <1>7, <1>8, <1>9
        DEF Next, SetEnv, ReachKeychain, LoseKeychainEntry

LEMMA NextSInv == CInv /\ SInv /\ [Next]_vars => SInv'
  BY SealedStaySafe, EnvStays, StoredStays, HostsStaySafe, RetiredFirstStays DEF SInv

(* Whatever hosts, adoptions, imports and retirements do, and wherever any *)
(* of them stops, a key that sealed a value stays in a slot, with the      *)
(* operator or in the retired set.  The exceptions are three: the keychain *)
(* lost its entry, two processes first stored a key at once, or a key file *)
(* nobody had retired was written over.                                    *)
THEOREM SealedKeysSurvive == Spec => []KeysSurvive
<1>1. SInv => KeysSurvive
  BY DEF SInv
<1> QED BY <1>1, Inductive, InitSInv, NextSInv, PTL DEF Spec

(***************************************************************************)
(* A host that is up opens what the folder sealed                          *)
(***************************************************************************)
(* The keys that OldValuesOpen excuses whatever a host holds: those of a   *)
(* live slot, of the operator, or lost.                                    *)
Placed(k) == k \in {keychain, file, legacy} \cup OperatorKey \cup erased \cup clobbered

(* What a host has yet to retire came from a slot, and what it holds since *)
(* its decision covers the retired keys it could read then.                *)
HoldsRetired(h) ==
  /\ pc[h] = "decide" => Placed(key[h])
  /\ pc[h] = "retire" => \A e \in todo[h] : Placed(e[2])
  /\ pc[h] \in {"retire", "note", "up"} =>
       \A k \in Retired : k \in {key[h]} \cup ring[h] \/ Placed(k)

OldInv == \A h \in Host : HoldsRetired(h)

(* A step of host h: the others wait.                                      *)
HostStep(h) ==
  Resolve(h) \/ StoreRetired(h) \/ IndexRetired(h) \/ RecordKey(h) \/ Stop(h)

LEMMA OthersWait ==
  ASSUME CInv, NEW h \in Host, HostStep(h), NEW p \in Proc \ {h}
  PROVE  /\ pc'[p] = pc[p] /\ key'[p] = key[p] /\ seen'[p] = seen[p]
         /\ source'[p] = source[p] /\ ring'[p] = ring[p]
         /\ todo'[p] = todo[p] /\ after'[p] = after[p]
<1> USE KeyFacts DEF CInv, TypeOK
<1>1. CASE StartResolve(h) \/ Seal(h) \/ RecordKey(h) \/ Stop(h)
  BY <1>1 DEF StartResolve, Seal, RecordKey, Stop, Goto
<1>2. CASE Climb(h)
  BY <1>2 DEF Climb, Take, Refuse, FallBack, Hold, Ring, Goto
<1>3. CASE StoreInKeychain(h)
  BY <1>3 DEF StoreInKeychain, Take, Refuse, Hold, Ring, Goto
<1>4. CASE VerifyKeychain(h) \/ PublishFile(h)
  BY <1>4 DEF VerifyKeychain, PublishFile, Refuse, Hold, Ring, Goto
<1>5. CASE Decide(h)
  BY <1>5 DEF Decide, ComeUp, Mismatch, Recover, Hold, Ring, Goto
<1>6. CASE StoreRetired(h) \/ IndexRetired(h)
  BY <1>6 DEF StoreRetired, IndexRetired, Drop, Goto
<1> QED BY <1>1, <1>2, <1>3, <1>4, <1>5, <1>6 DEF HostStep, Resolve

(* A host takes a key from a slot only where the same key is in another,   *)
(* or where clobbered names it.                                            *)
LEMMA PlacedStays ==
  ASSUME CInv, NEW h \in Host, HostStep(h), NEW k \in Key, Placed(k)
  PROVE  Placed(k)'
<1>1. CASE Climb(h)
  <2>1. /\ UNCHANGED <<keychain, file, erased, clobbered>>
        /\ legacy' = legacy \/ (legacy = keychain)
    BY <1>1 DEF Climb, Take, Refuse, FallBack, slots, Hold, Goto
  <2> QED BY <2>1 DEF Placed
<1>2. CASE StoreInKeychain(h)
  <2>1. /\ UNCHANGED <<erased, file, legacy>>
        /\ \/ UNCHANGED <<keychain, clobbered>>
           \/ /\ keychain' = key[h]
              /\ clobbered' = clobbered \cup ({keychain} \cap (Key \ {key[h]}))
    BY <1>2 DEF StoreInKeychain, Take, Refuse, slots
  <2> QED BY <2>1 DEF Placed
<1>3. CASE VerifyKeychain(h)
  <2>1. /\ UNCHANGED <<erased, clobbered, keychain, file>>
        /\ legacy' = legacy \/ legacy = keychain
    BY <1>3 DEF VerifyKeychain, Refuse, slots
  <2> QED BY <2>1 DEF Placed
<1>4. CASE PublishFile(h)
  <2>1. /\ UNCHANGED <<erased, clobbered, keychain, legacy>>
        /\ file' = file \/ file = NoKey
    BY <1>4 DEF PublishFile, Refuse, slots
  <2> QED BY <2>1, KeyFacts DEF Placed
<1>5. CASE \/ StartResolve(h) \/ Decide(h) \/ Seal(h)
           \/ StoreRetired(h) \/ IndexRetired(h) \/ RecordKey(h) \/ Stop(h)
  <2>1. UNCHANGED <<keychain, file, legacy, erased, clobbered>>
    BY <1>5 DEF StartResolve, Decide, Seal, StoreRetired, IndexRetired, RecordKey, Stop,
                slots, ghosts
  <2> QED BY <2>1 DEF Placed
<1> QED BY <1>1, <1>2, <1>3, <1>4, <1>5 DEF HostStep, Resolve

(* Only IndexRetired makes a key readable among the retired ones.          *)
LEMMA RetiredGrows ==
  ASSUME CInv, SInv, NEW h \in Host, HostStep(h)
  PROVE  /\ reach' = reach
         /\ \/ Retired' = Retired
            \/ /\ IndexRetired(h)
               /\ \A k \in Retired' : k \in Retired \/ \E e \in todo[h] : k = e[2]
<1>1. CASE IndexRetired(h)
  <2>1. /\ reach' = reach /\ vault' = vault
        /\ \E e \in todo[h] : index' = index \cup {e}
    BY <1>1 DEF IndexRetired
  <2> QED BY <1>1, <2>1 DEF Retired, Loadable
<1>2. CASE StoreRetired(h)
  <2>1. reach' = reach /\ index' = index /\ vault \subseteq vault' /\ index \subseteq vault
    BY <1>2 DEF StoreRetired, SInv, Stored
  <2> QED BY <2>1 DEF Retired, Loadable
<1>3. CASE Resolve(h) \/ RecordKey(h) \/ Stop(h)
  <2>1. UNCHANGED <<reach, vault, index>>
    BY <1>3 DEF Resolve, StartResolve, Climb, StoreInKeychain, VerifyKeychain,
                PublishFile, Decide, Seal, RecordKey, Stop
  <2> QED BY <2>1 DEF Retired, Loadable
<1> QED BY <1>1, <1>2, <1>3 DEF HostStep

(* What a refusal or a comparison leaves a host with: all it could read.   *)
LEMMA RefuseHolds ==
  ASSUME CInv, NEW h \in Host, Refuse(h), Retired' = Retired
  PROVE  HoldsRetired(h)'
<1>1. CASE seen[h] \in Candidates
  <2>1. pc'[h] = "up" /\ ring'[h] = Retired
    BY <1>1, KeyFacts DEF Refuse, Goto, Ring, CInv, TypeOK
  <2> QED BY <2>1 DEF HoldsRetired
<1>2. CASE seen[h] \notin Candidates
  <2>1. pc'[h] = "refused"
    BY <1>2, KeyFacts DEF Refuse, Goto, CInv, TypeOK
  <2> QED BY <2>1 DEF HoldsRetired
<1> QED BY <1>1, <1>2

LEMMA ClimbHolds ==
  ASSUME CInv, SInv, NEW h \in Host, Climb(h)
  PROVE  HoldsRetired(h)'
<1> USE KeyFacts
<1>1. /\ Retired' = Retired
      /\ pc \in [Proc -> Step] /\ key \in [Proc -> Key \cup {NoKey}]
  BY DEF Climb, Retired, Loadable, CInv, TypeOK
<1>2. ASSUME Refuse(h) PROVE HoldsRetired(h)'
  BY <1>1, <1>2, RefuseHolds
<1>3. ASSUME pc'[h] = "decide", key'[h] \in {keychain', file'} \cup OperatorKey
      PROVE  HoldsRetired(h)'
  BY <1>3 DEF HoldsRetired, Placed
<1>4. CASE env \in Key /\ Take(h, env, "env", "decide")
  <2>1. pc'[h] = "decide" /\ key'[h] = env /\ env \in OperatorKey
    BY <1>1, <1>4 DEF Take, Hold, Goto, SInv
  <2> QED BY <1>3, <2>1
<1>5. CASE Hold(h, keychain, "keychain") /\ Goto(h, "decide") /\ keychain' = keychain
  <2>1. pc'[h] = "decide" /\ key'[h] = keychain'
    BY <1>1, <1>5 DEF Hold, Goto
  <2> QED BY <1>3, <2>1
<1>6. ASSUME NEW s \in {"store", "publish"}, FallBack(h, s) PROVE HoldsRetired(h)'
  <2>1. Refuse(h) \/ pc'[h] = s
    BY <1>1, <1>6 DEF FallBack, Take, Goto
  <2> QED BY <1>2, <2>1 DEF HoldsRetired
<1>7. CASE file \in Key /\ AllowFile /\ FallBack(h, "decide")
  <2>1. pc'[h] = "decide" /\ key'[h] = file'
    BY <1>1, <1>7 DEF FallBack, Take, Hold, Goto, slots
  <2> QED BY <1>3, <2>1
<1>8. \/ env \in Key /\ Take(h, env, "env", "decide")
      \/ Refuse(h)
      \/ Hold(h, keychain, "keychain") /\ Goto(h, "decide") /\ keychain' = keychain
      \/ \E s \in {"store", "publish"} : FallBack(h, s)
      \/ file \in Key /\ AllowFile /\ FallBack(h, "decide")
  BY DEF Climb
<1> QED BY <1>2, <1>4, <1>5, <1>6, <1>7, <1>8

LEMMA FirstStoreHolds ==
  ASSUME CInv, NEW h \in Host, StoreInKeychain(h) \/ VerifyKeychain(h) \/ PublishFile(h)
  PROVE  HoldsRetired(h)'
<1> USE KeyFacts
<1>1. /\ Retired' = Retired
      /\ pc \in [Proc -> Step] /\ key \in [Proc -> Key \cup {NoKey}]
  BY DEF StoreInKeychain, VerifyKeychain, PublishFile, Retired, Loadable, CInv, TypeOK
<1>2. CASE Refuse(h)
  BY <1>1, <1>2, RefuseHolds
<1>3. CASE StoreInKeychain(h) /\ ~Refuse(h)
  <2>1. pc'[h] \in {"verify", "publish"}
    BY <1>1, <1>3 DEF StoreInKeychain, Take, Goto
  <2> QED BY <2>1 DEF HoldsRetired
<1>4. CASE VerifyKeychain(h) /\ ~Refuse(h)
  <2>1. key[h] \in Key
    BY <1>4 DEF VerifyKeychain, CInv, HasKey, HoldingStep
  <2>2. pc'[h] = "decide" /\ key'[h] = keychain'
    BY <1>1, <1>4, <2>1 DEF VerifyKeychain, Hold, Goto, KeychainKey
  <2> QED BY <2>2 DEF HoldsRetired, Placed
<1>5. CASE PublishFile(h) /\ ~Refuse(h)
  <2>1. pc'[h] = "decide" /\ key'[h] = file'
    BY <1>1, <1>5 DEF PublishFile, Hold, Goto
  <2> QED BY <2>1 DEF HoldsRetired, Placed
<1> QED BY <1>2, <1>3, <1>4, <1>5

LEMMA DecideHolds ==
  ASSUME CInv, NEW h \in Host, HoldsRetired(h), Decide(h)
  PROVE  HoldsRetired(h)'
<1> USE KeyFacts
<1>1. /\ Retired' = Retired /\ Placed(key[h]) /\ \A k : Placed(k) => Placed(k)'
      /\ UNCHANGED <<keychain, file, legacy, erased, clobbered>>
      /\ pc \in [Proc -> Step] /\ key \in [Proc -> Key \cup {NoKey}]
      /\ ring \in [Proc -> SUBSET Key] /\ DOMAIN todo = Proc
  <2>1. /\ pc[h] = "decide" /\ Placed(key[h])
        /\ UNCHANGED <<reach, vault, index, keychain, file, legacy, erased, clobbered>>
    BY DEF Decide, HoldsRetired, slots, ghosts
  <2>2. Retired' = Retired
    BY <2>1 DEF Retired, Loadable
  <2>3. \A k : Placed(k) => Placed(k)'
    BY <2>1 DEF Placed
  <2> QED BY <2>1, <2>2, <2>3 DEF CInv, TypeOK
<1>2. ASSUME NEW R, pc'[h] \in {"up", "note"}, ring'[h] = R, Retired \ {key'[h]} \subseteq R
      PROVE  HoldsRetired(h)'
  BY <1>1, <1>2 DEF HoldsRetired
<1>3. CASE ComeUp(h, key[h])
  <2>1. pc'[h] = "up" /\ ring'[h] = Retired \ {key'[h]}
    BY <1>1, <1>3 DEF ComeUp, Hold, Ring, Goto
  <2> QED BY <1>2, <2>1
<1>4. CASE Ring(h, Retired \ {key[h]}) /\ Goto(h, "note") /\ UNCHANGED key
  <2>1. pc'[h] = "note" /\ ring'[h] = Retired \ {key'[h]}
    BY <1>1, <1>4 DEF Ring, Goto
  <2> QED BY <1>2, <2>1
<1>5. CASE Mismatch(h)
  <2>1. pc'[h] = "refused"
    BY <1>1, <1>5 DEF Mismatch, Goto
  <2> QED BY <2>1 DEF HoldsRetired
<1>6. ASSUME NEW k, NEW then \in {"up", "note"}, Recover(h, k, then) PROVE HoldsRetired(h)'
  <2>1. /\ key'[h] = k /\ ring'[h] = (Retired \cup {key[h]}) \ {k}
        /\ todo'[h] = (IF source[h] = "env" THEN {} ELSE {<<"none", key[h]>>})
        /\ pc'[h] = (IF source[h] = "env" THEN then ELSE "retire")
    BY <1>1, <1>6 DEF Recover, Hold, Ring, Goto
  <2>2. CASE source[h] = "env"
    BY <1>2, <2>1, <2>2
  <2>3. CASE source[h] # "env"
    <3>1. pc'[h] = "retire" /\ todo'[h] = {<<"none", key[h]>>}
      BY <2>1, <2>3
    <3>2. \A e \in todo'[h] : e[2] = key[h]
      BY <3>1
    <3>3. \A e \in todo'[h] : Placed(e[2])'
      BY <1>1, <3>2
    <3>4. \A o \in Retired' : o \in {key'[h]} \cup ring'[h]
      BY <1>1, <2>1
    <3> QED BY <3>1, <3>3, <3>4 DEF HoldsRetired
  <2> QED BY <2>2, <2>3
<1>7. \/ ComeUp(h, key[h]) \/ Mismatch(h)
      \/ Ring(h, Retired \ {key[h]}) /\ Goto(h, "note") /\ UNCHANGED key
      \/ \E k, then : then \in {"up", "note"} /\ Recover(h, k, then)
  BY DEF Decide
<1> QED BY <1>3, <1>4, <1>5, <1>6, <1>7

(* Retiring moves keys from the list to the vault and the index.           *)
LEMMA TodoShrinks ==
  ASSUME CInv, NEW p \in Proc, StoreRetired(p) \/ IndexRetired(p)
  PROVE  /\ \A e \in todo'[p] : \E x \in todo[p] : x[2] = e[2]
         /\ \A q \in Proc \ {p} : todo'[q] = todo[q]
<1> USE KeyFacts
<1>1. todo \in [Proc -> SUBSET ({"none", "keychain", "file"} \X Key)]
  BY DEF CInv, TypeOK
<1>2. CASE StoreRetired(p)
  <2>1. PICK e \in todo[p] :
          \/ todo' = [todo EXCEPT ![p] = @ \ {e}]
          \/ todo' = todo
          \/ todo' = [todo EXCEPT ![p] = (@ \ {e}) \cup
                        {<<IF PrefersKeychain(p) THEN "keychain" ELSE "file", e[2]>>}]
    BY <1>2 DEF StoreRetired, Drop
  <2>2. \A c : <<c, e[2]>>[2] = e[2]
    OBVIOUS
  <2>3. /\ todo'[p] \subseteq todo[p] \cup
             {<<IF PrefersKeychain(p) THEN "keychain" ELSE "file", e[2]>>}
        /\ \A q \in Proc \ {p} : todo'[q] = todo[q]
    BY <1>1, <2>1
  <2> QED BY <2>2, <2>3
<1>3. CASE IndexRetired(p)
  <2>1. todo'[p] \subseteq todo[p] /\ \A q \in Proc \ {p} : todo'[q] = todo[q]
    BY <1>1, <1>3 DEF IndexRetired, Drop
  <2> QED BY <2>1
<1> QED BY <1>2, <1>3

LEMMA RetireHolds ==
  ASSUME CInv, SInv, NEW h \in Host, HoldsRetired(h), StoreRetired(h) \/ IndexRetired(h)
  PROVE  HoldsRetired(h)'
<1> USE KeyFacts
<1>1. /\ pc[h] = "retire" /\ after[h] \in {"note", "up"}
      /\ UNCHANGED <<keychain, file, legacy, erased, clobbered, key, ring>>
      /\ pc \in [Proc -> Step]
      /\ todo \in [Proc -> SUBSET ({"none", "keychain", "file"} \X Key)]
  BY DEF StoreRetired, IndexRetired, slots, ghosts, CInv, TypeOK, Orderly, InOrder
<1>2. \A k : Placed(k) => Placed(k)'
  BY <1>1 DEF Placed
<1>3. \A e \in todo'[h] : \E x \in todo[h] : x[2] = e[2]
  BY TodoShrinks
<1>4. \A e \in todo[h] : Placed(e[2])
  BY <1>1 DEF HoldsRetired
<1>5. \A e \in todo'[h] : Placed(e[2])'
  <2>1. SUFFICES ASSUME NEW e \in todo'[h] PROVE Placed(e[2])'
    OBVIOUS
  <2>2. PICK x \in todo[h] : x[2] = e[2]
    BY <1>3, <2>1
  <2>3. Placed(x[2])
    BY <1>4
  <2>4. PICK k : k = x[2]
    OBVIOUS
  <2>5. Placed(k)'
    BY <1>2, <2>3, <2>4
  <2> QED BY <2>2, <2>4, <2>5 DEF Placed
<1>6. \A k \in Retired' : k \in Retired \/ Placed(k)
  BY <1>4, RetiredGrows DEF HostStep
<1>7. \A k \in Retired' : k \in {key'[h]} \cup ring'[h] \/ Placed(k)'
  BY <1>1, <1>2, <1>6 DEF HoldsRetired
<1>8. pc'[h] \in {"retire", "note", "up"}
  BY <1>1, KeyFacts DEF StoreRetired, IndexRetired, Drop, Goto
<1> QED BY <1>5, <1>7, <1>8 DEF HoldsRetired

LEMMA QuietHolds ==
  ASSUME CInv, NEW h \in Host, HoldsRetired(h),
         StartResolve(h) \/ Seal(h) \/ RecordKey(h) \/ Stop(h)
  PROVE  HoldsRetired(h)'
<1> USE KeyFacts
<1>1. CASE StartResolve(h) \/ Stop(h)
  <2>1. pc'[h] \in {"ladder", "idle"}
    BY <1>1 DEF StartResolve, Stop, Goto, CInv, TypeOK
  <2> QED BY <2>1 DEF HoldsRetired
<1>2. CASE Seal(h) \/ RecordKey(h)
  <2>1. /\ pc[h] \in {"note", "up"} /\ pc'[h] = "up"
        /\ UNCHANGED <<keychain, file, legacy, erased, clobbered, key, ring, reach, index, vault>>
    BY <1>2 DEF Seal, RecordKey, Goto, slots, CInv, TypeOK
  <2> QED BY <2>1 DEF HoldsRetired, Placed, Retired, Loadable
<1> QED BY <1>1, <1>2

(* The others keep what they hold; what a host indexes came from a slot.   *)
LEMMA WaitingHolds ==
  ASSUME CInv, SInv, NEW h \in Host, HostStep(h), HoldsRetired(h),
         NEW g \in Host \ {h}, HoldsRetired(g)
  PROVE  HoldsRetired(g)'
<1> USE KeyFacts
<1>1. /\ pc'[g] = pc[g] /\ key'[g] = key[g] /\ ring'[g] = ring[g] /\ todo'[g] = todo[g]
  BY OthersWait
<1>2. \A k \in Key : Placed(k) => Placed(k)'
  BY PlacedStays
<1>3. \A k \in Retired' : k \in Key /\ (k \in Retired \/ Placed(k))
  <2>1. CASE Retired' = Retired
    BY <2>1, CandidatesAreKeys DEF CInv
  <2>2. CASE IndexRetired(h) /\ \A k \in Retired' : k \in Retired \/ \E e \in todo[h] : k = e[2]
    <3>1. \A e \in todo[h] : e[2] \in Key /\ Placed(e[2])
      BY <2>2 DEF IndexRetired, HoldsRetired, CInv, TypeOK
    <3> QED BY <2>2, <3>1, CandidatesAreKeys DEF CInv
  <2> QED BY <2>1, <2>2, RetiredGrows
<1>4. pc[g] = "decide" => Placed(key[g])'
  <2>1. SUFFICES ASSUME pc[g] = "decide" PROVE Placed(key[g])'
    OBVIOUS
  <2>2. PICK k \in Key : k = key[g] /\ Placed(k)
    BY <2>1 DEF HoldsRetired, CInv, HasKey, HoldingStep
  <2>3. Placed(k)'
    BY <1>2, <2>2
  <2> QED BY <1>1, <2>2, <2>3 DEF Placed
<1>5. pc[g] = "retire" => \A e \in todo[g] : Placed(e[2])'
  <2>1. SUFFICES ASSUME pc[g] = "retire", NEW e \in todo[g] PROVE Placed(e[2])'
    OBVIOUS
  <2>2. PICK k \in Key : k = e[2] /\ Placed(k)
    BY <2>1 DEF HoldsRetired, CInv, TypeOK
  <2>3. Placed(k)'
    BY <1>2, <2>2
  <2> QED BY <2>2, <2>3 DEF Placed
<1>6. pc[g] \in {"retire", "note", "up"} =>
        \A k \in Retired' : k \in {key[g]} \cup ring[g] \/ Placed(k)'
  BY <1>2, <1>3 DEF HoldsRetired
<1> QED BY <1>1, <1>4, <1>5, <1>6 DEF HoldsRetired

(* A command, or the operator, steps only while every host rests.          *)
LEMMA WhoSteps ==
  ASSUME CInv, [Next]_vars
  PROVE  \/ \E h \in Host : HostStep(h)
         \/ \A h \in Host : pc[h] = "idle" /\ pc'[h] = "idle"
         \/ UNCHANGED vars
<1> USE KeyFacts
<1>1. ASSUME NEW p \in Proc, StoreRetired(p) \/ IndexRetired(p) \/ RecordKey(p) \/ Stop(p)
      PROVE  \/ \E h \in Host : HostStep(h)
             \/ \A h \in Host : pc[h] = "idle" /\ pc'[h] = "idle"
  <2>1. CASE p \in Host
    BY <1>1, <2>1 DEF HostStep
  <2>2. CASE p = Admin
    <3>1. pc[Admin] # "idle"
      BY <1>1, <2>2 DEF StoreRetired, IndexRetired, RecordKey, Stop
    <3>2. \A h \in Host : pc'[h] = pc[h]
      BY <1>1, <2>2 DEF StoreRetired, IndexRetired, RecordKey, Stop, Drop, Goto, CInv, TypeOK
    <3> QED BY <3>1, <3>2, HostsRest
  <2> QED BY <2>1, <2>2 DEF Proc
<1>2. ASSUME Command PROVE \A h \in Host : pc[h] = "idle" /\ pc'[h] = "idle"
  <2>1. Turn \/ pc[Admin] # "idle"
    BY <1>2 DEF Command, Adopt, RetireKey, Import, Install, ClearSlot
  <2>2. \A h \in Host : pc'[h] = pc[h]
    BY <1>2 DEF Command, Adopt, RetireKey, Import, BeginInstall, Install, ClearSlot, Goto,
                CInv, TypeOK
  <2> QED BY <2>1, <2>2, HostsRest, TurnFacts
<1>3. ASSUME Turn, pc' = pc PROVE \A h \in Host : pc[h] = "idle" /\ pc'[h] = "idle"
  BY <1>3, TurnFacts
<1> QED BY <1>1, <1>2, <1>3 DEF Next, HostStep, SetEnv, ReachKeychain, LoseKeychainEntry

LEMMA OldStays == CInv /\ SInv /\ OldInv /\ [Next]_vars => OldInv'
<1> SUFFICES ASSUME CInv, SInv, OldInv, [Next]_vars, NEW g \in Host PROVE HoldsRetired(g)'
  BY DEF OldInv
<1>1. ASSUME NEW h \in Host, HostStep(h) PROVE HoldsRetired(g)'
  <2>1. HoldsRetired(h) /\ HoldsRetired(g)
    BY DEF OldInv
  <2>2. CASE g = h
    BY <1>1, <2>1, <2>2, ClimbHolds, FirstStoreHolds, DecideHolds, RetireHolds, QuietHolds
       DEF HostStep, Resolve
  <2>3. CASE g # h
    BY <1>1, <2>1, <2>3, WaitingHolds
  <2> QED BY <2>2, <2>3
<1>2. CASE \A h \in Host : pc'[h] = "idle"
  BY <1>2 DEF HoldsRetired
<1>3. CASE UNCHANGED vars
  BY <1>3 DEF vars, slots, ghosts, OldInv, HoldsRetired, Placed, Retired, Loadable
<1> QED BY <1>1, <1>2, <1>3, WhoSteps

(* Any host that is up, on the recorded key or before there is one, opens  *)
(* all that was sealed under earlier keys, whatever adoptions, imports and *)
(* recoveries came before it or were cut short: what it does not open is   *)
(* lost, still in a slot, or in a keychain out of reach.                   *)
THEOREM HostsOpenOldValues == Spec => []OldValuesOpen
<1>1. Init => OldInv
  BY KeyFacts DEF Init, OldInv, HoldsRetired
<1>2. ASSUME CInv, SInv, OldInv PROVE OldValuesOpen
  <2>1. SUFFICES ASSUME NEW h \in Host, pc[h] = "up", NEW k \in sealed,
                        ~ Placed(k), k \notin {key[h]} \cup ring[h]
                 PROVE  reach = "off" /\ <<"keychain", k>> \in index
    BY DEF OldValuesOpen, Placed
  <2>2. k \notin erased \cup clobbered /\ k \notin {keychain, file, legacy} \cup OperatorKey
    BY <2>1 DEF Placed
  <2>3. PICK e \in index \cap vault : e[2] = k
    BY <1>2, <2>1, <2>2 DEF SInv, KeysSurvive, Held
  <2>4. k \notin Retired
    BY <1>2, <2>1 DEF OldInv, HoldsRetired
  <2>5. e[1] = "keychain" /\ reach = "off"
    BY <2>3, <2>4 DEF Retired, Loadable
  <2>6. e \in {"keychain", "file"} \X Key
    BY <1>2, <2>3 DEF CInv, TypeOK, Entry
  <2> QED BY <2>3, <2>5, <2>6
<1>3. CInv /\ SInv /\ OldInv => OldValuesOpen
  BY <1>2
<1> QED BY <1>1, <1>3, Inductive, InitSInv, NextSInv, OldStays, PTL DEF Spec

(***************************************************************************)
(* A refusal is forced                                                     *)
(***************************************************************************)
(* Hosts that climb at once may hold keys that no slot shows yet.  A       *)
(* refused host stays rightly refused only because none of these can be    *)
(* the recorded key: it was taken from a slot, or it has just been         *)
(* generated and nothing else ever saw it.                                 *)
TodoKeys == UNION {{e[2] : e \in todo[p]} : p \in Proc}
Visible == {env, keychain, file, legacy, record} \cup IndexedKeys \cup TodoKeys

MintInv == (Visible \cup {key[p] : p \in Proc}) \cap NewKey \subseteq minted

Fresh(h) == /\ key[h] \in minted
            /\ key[h] \notin Visible \cup {key[p] : p \in Proc \ {h}}

Fallback == IF AllowFile /\ file \in Key THEN file ELSE legacy
AtStore == {h \in Host : pc[h] \in {"store", "publish"}}

(* With a writable keychain the hosts about to write to it hold the same   *)
(* key, of the fallback slot or of the keychain that got it first, or each *)
(* a fresh one.                                                            *)
ClimbInv ==
  /\ reach # "rw" => \A h \in AtStore : key[h] \in LiveCandidates \/ Fresh(h)
  /\ reach = "rw" =>
       /\ \A h \in Host : pc[h] # "publish"
       /\ \/ Fallback \in Key /\ \A h \in AtStore : key[h] = Fallback
          \/ Fallback \notin Key /\ \A h \in AtStore : Fresh(h)
          \/ Fallback \notin Key /\ \A h \in AtStore : key[h] = keychain

Forced(h) ==
  pc[h] = "refused" /\ seen[h] # NoKey => seen[h] \notin Candidates \/ env \in Key \ {seen[h]}

RefInv ==
  \A h \in Host :
    /\ pc[h] = "decide" /\ source[h] = "env" => key[h] = env
    /\ pc[h] = "retire" /\ after[h] = "up" => \A e \in todo[h] : e[2] # seen[h]
    /\ Forced(h)

(* What a step of p can make visible: its own key, no key, or a new one.   *)
LEMMA Shown ==
  ASSUME CInv, NEW p \in Proc, NEW S, Visible \subseteq S,
         \A q \in Proc \ {p} : todo'[q] = todo[q],
         \A e \in todo'[p] : e[2] \in S,
         \A e \in index' : e \in index \/ e[2] \in S,
         {env', keychain', file', legacy', record'} \subseteq S
  PROVE  Visible' \subseteq S
<1>1. TodoKeys' \subseteq S
  <2>1. SUFFICES ASSUME NEW q \in Proc, NEW e \in todo'[q] PROVE e[2] \in S
    BY DEF TodoKeys
  <2>2. CASE q = p
    BY <2>2
  <2>3. CASE q # p
    BY <2>3 DEF TodoKeys, Visible
  <2> QED BY <2>2, <2>3
<1>2. IndexedKeys' \subseteq S
  BY DEF IndexedKeys, Visible
<1> QED BY <1>1, <1>2 DEF Visible

LEMMA CandidatesShow ==
  /\ Candidates \subseteq Visible
  /\ CInv => \A h \in Host : pc[h] # "idle" => seen[h] \in Visible \cup {NoKey}
<1>1. Candidates \subseteq Visible
  <2>1. LiveCandidates \subseteq Visible
    BY KeyFacts DEF LiveCandidates, KeychainKey, Visible
  <2>2. Retired \subseteq Visible
    BY DEF Retired, IndexedKeys, Visible
  <2> QED BY <2>1, <2>2 DEF Candidates
<1>2. CInv => \A h \in Host : pc[h] # "idle" => seen[h] \in Visible \cup {NoKey}
  BY DEF CInv, Orderly, InOrder, Visible
<1> QED BY <1>1, <1>2

(* A step of p shows nothing else.                                         *)
Closes(p) ==
  /\ minted \subseteq minted'
  /\ Visible' \cup {key'[p]} \subseteq Visible \cup {key[p], NoKey} \cup (minted' \ minted)

LEMMA LadderCloses ==
  ASSUME CInv, NEW h \in Host,
         Climb(h) \/ StoreInKeychain(h) \/ VerifyKeychain(h) \/ PublishFile(h)
  PROVE  Closes(h)
<1> USE KeyFacts
<1> DEFINE S == Visible \cup {key[h], NoKey} \cup (minted' \ minted)
<1>1. /\ UNCHANGED <<index, record, todo>> /\ pc[h] # "idle"
      /\ key \in [Proc -> Key \cup {NoKey}]
      /\ \A k, src : Hold(h, k, src) => key'[h] = k
  BY DEF Climb, StoreInKeychain, VerifyKeychain, PublishFile, Hold, CInv, TypeOK
<1>2. {env, keychain, file, legacy, record, key[h], NoKey} \subseteq S /\ Visible \subseteq S
  BY DEF Visible
<1>3. \A e \in todo'[h] : e[2] \in S
  BY <1>1 DEF Visible, TodoKeys
<1>4. ASSUME minted \subseteq minted', key'[h] \in S, {env', keychain', file', legacy'} \subseteq S
      PROVE  Closes(h)
  <2>1. \A e \in index' : e \in index
    BY <1>1
  <2>2. {env', keychain', file', legacy', record'} \subseteq S /\ \A q \in Proc \ {h} : todo'[q] = todo[q]
    BY <1>1, <1>2, <1>4
  <2>3. Visible' \subseteq S
    BY <1>2, <1>3, <2>1, <2>2, Shown
  <2> QED BY <1>4, <2>3 DEF Closes
<1>5. ASSUME Refuse(h) PROVE Closes(h)
  <2>1. UNCHANGED <<env, keychain, file, legacy, minted>>
    BY <1>5 DEF Refuse, slots
  <2>2. key'[h] \in {key[h], seen[h]}
    BY <1>1, <1>5 DEF Refuse
  <2>3. key'[h] \in S
    BY <1>1, <1>2, <2>2, CandidatesShow
  <2> QED BY <1>2, <1>4, <2>1, <2>3
<1>6. ASSUME NEW k \in S, NEW src, NEW s, Take(h, k, src, s) PROVE Closes(h)
  BY <1>1, <1>2, <1>4, <1>6 DEF Take, slots
<1> HIDE DEF S
<1>7. CASE Climb(h)
  <2>1. ASSUME NEW s, FallBack(h, s) PROVE Closes(h)
    <3>1. CASE Refuse(h)
      BY <1>5, <3>1
    <3>2. CASE Take(h, Fallback, "file", s)
      <4>1. Fallback \in S
        BY <1>2 DEF Fallback
      <4> QED BY <1>6, <3>2, <4>1
    <3>3. ASSUME NEW k \in NewKey \ minted, Hold(h, k, "file"), minted' = minted \cup {k},
                 UNCHANGED slots
          PROVE  Closes(h)
      <4>1. k \in S /\ minted \subseteq minted' /\ key'[h] = k
        BY <1>1, <3>3 DEF S
      <4> QED BY <1>2, <1>4, <3>3, <4>1 DEF slots
    <3> QED BY <2>1, <3>1, <3>2, <3>3 DEF FallBack, Fallback
  <2>2. ASSUME Hold(h, keychain, "keychain"), legacy' \in {NoKey, legacy},
               UNCHANGED <<env, keychain, file, minted>>
        PROVE  Closes(h)
    BY <1>1, <1>2, <1>4, <2>2
  <2>3. \/ Take(h, env, "env", "decide")
        \/ Refuse(h)
        \/ /\ Hold(h, keychain, "keychain") /\ legacy' \in {NoKey, legacy}
           /\ UNCHANGED <<env, keychain, file, minted>>
        \/ \E s : FallBack(h, s)
    BY <1>7 DEF Climb
  <2>4. ASSUME Take(h, env, "env", "decide") PROVE Closes(h)
    BY <1>2, <1>6, <2>4
  <2> QED BY <1>5, <2>1, <2>2, <2>3, <2>4
<1>8. CASE StoreInKeychain(h)
  <2>1. CASE reach = "rw"
    <3>1. keychain' = key[h] /\ UNCHANGED <<env, file, legacy, minted, key>>
      BY <1>8, <2>1 DEF StoreInKeychain
    <3> QED BY <1>2, <1>4, <3>1
  <2>2. CASE reach # "rw"
    BY <1>2, <1>5, <1>6, <1>8, <2>2 DEF StoreInKeychain
  <2> QED BY <2>1, <2>2
<1>9. CASE VerifyKeychain(h)
  <2>1. CASE KeychainKey = key[h]
    BY <1>1, <1>2, <1>4, <1>9, <2>1 DEF VerifyKeychain
  <2> QED BY <1>5, <1>9, <2>1 DEF VerifyKeychain
<1>10. CASE PublishFile(h)
  <2>1. CASE file # Bad
    BY <1>1, <1>2, <1>4, <1>10, <2>1 DEF PublishFile
  <2> QED BY <1>5, <1>10, <2>1 DEF PublishFile
<1> QED BY <1>7, <1>8, <1>9, <1>10

LEMMA DecideCloses ==
  ASSUME CInv, NEW h \in Host, Decide(h)
  PROVE  Closes(h)
<1> USE KeyFacts
<1> DEFINE S == Visible \cup {key[h], NoKey} \cup (minted' \ minted)
<1>1. /\ UNCHANGED <<index, record, env, keychain, file, legacy, minted>> /\ pc[h] # "idle"
      /\ key \in [Proc -> Key \cup {NoKey}] /\ DOMAIN todo = Proc
  BY DEF Decide, slots, ghosts, CInv, TypeOK
<1>2. {env, keychain, file, legacy, record, key[h], NoKey} \subseteq S /\ Visible \subseteq S
  BY DEF Visible
<1>3. Candidates \cup {key[h]} \subseteq S /\ seen[h] \in S
  BY <1>1, <1>2, CandidatesShow
<1>4. /\ key'[h] \in S
      /\ \A q \in Proc \ {h} : todo'[q] = todo[q]
      /\ todo'[h] = todo[h] \/ todo'[h] = {} \/ todo'[h] = {<<"none", key[h]>>}
  <2>1. ASSUME NEW k \in Candidates \cup {key[h], seen[h]}, NEW then, Recover(h, k, then)
        PROVE <1>4!:
    <3>1. key'[h] \in S
      BY <1>1, <1>3, <2>1 DEF Recover, Hold
    <3>2. /\ \A q \in Proc \ {h} : todo'[q] = todo[q]
          /\ todo'[h] = {} \/ todo'[h] = {<<"none", key[h]>>}
      BY <1>1, <2>1 DEF Recover
    <3> QED BY <3>1, <3>2
  <2>2. ASSUME ComeUp(h, key[h]) \/ Mismatch(h) \/ UNCHANGED <<key, todo>>
        PROVE <1>4!:
    <3>1. key'[h] = key[h] /\ todo' = todo
      BY <1>1, <2>2 DEF ComeUp, Mismatch, Hold
    <3> QED BY <1>3, <3>1
  <2>3. \/ ComeUp(h, key[h]) \/ Mismatch(h) \/ UNCHANGED <<key, todo>>
        \/ \E k \in Candidates \cup {key[h], seen[h]}, then \in {"up", "note"} : Recover(h, k, then)
    BY DEF Decide
  <2> QED BY <2>1, <2>2, <2>3
<1>5. \A e \in todo'[h] : e[2] \in S
  <2>1. \A e \in todo[h] : e[2] \in S
    BY DEF Visible, TodoKeys
  <2>2. <<"none", key[h]>>[2] \in S
    BY <1>2
  <2> QED BY <1>4, <2>1, <2>2
<1>6. \A e \in index' : e \in index
  BY <1>1
<1>7. {env', keychain', file', legacy', record'} \subseteq S
  BY <1>1, <1>2
<1> HIDE DEF S
<1>8. Visible' \subseteq S
  BY <1>2, <1>4, <1>5, <1>6, <1>7, Shown
<1> QED BY <1>1, <1>4, <1>8 DEF Closes, S

LEMMA VaultCloses ==
  ASSUME CInv, NEW p \in Proc,
         StoreRetired(p) \/ IndexRetired(p) \/ RecordKey(p) \/ Stop(p)
  PROVE  Closes(p)
<1> USE KeyFacts
<1> DEFINE S == Visible \cup {key[p], NoKey} \cup (minted' \ minted)
<1>1. /\ UNCHANGED <<env, keychain, file, legacy, minted>> /\ record' \in {record, key[p]}
      /\ key'[p] \in {key[p], NoKey}
  BY DEF StoreRetired, IndexRetired, RecordKey, Stop, slots, ghosts, CInv, TypeOK
<1>2. {env, keychain, file, legacy, record, key[p], NoKey} \subseteq S /\ Visible \subseteq S
  BY DEF Visible
<1>3. \A e \in todo[p] : e[2] \in S
  BY DEF Visible, TodoKeys
<1>4. \A e \in todo'[p] : e[2] \in S
  <2>1. CASE StoreRetired(p) \/ IndexRetired(p)
    BY <1>3, <2>1, TodoShrinks
  <2>2. CASE RecordKey(p) \/ Stop(p)
    <3>1. todo'[p] \subseteq todo[p]
      BY <2>2 DEF RecordKey, Stop, CInv, TypeOK
    <3> QED BY <1>3, <3>1
  <2> QED BY <2>1, <2>2
<1>5. \A q \in Proc \ {p} : todo'[q] = todo[q]
  BY TodoShrinks DEF RecordKey, Stop, CInv, TypeOK
<1>6. \A e \in index' : e \in index \/ e[2] \in S
  BY <1>3 DEF StoreRetired, IndexRetired, RecordKey, Stop
<1>7. {env', keychain', file', legacy', record'} \subseteq S
  BY <1>1, <1>2
<1> HIDE DEF S
<1>8. Visible' \subseteq S
  BY <1>2, <1>4, <1>5, <1>6, <1>7, Shown
<1> QED BY <1>1, <1>2, <1>8 DEF Closes, S

LEMMA HostCloses ==
  ASSUME CInv, NEW h \in Host, HostStep(h)
  PROVE  Closes(h)
<1>1. CASE StartResolve(h) \/ Seal(h)
  <2>1. /\ UNCHANGED <<slots, minted, key, index, todo>> /\ record' = record
    BY <1>1 DEF StartResolve, Seal, ghosts
  <2> QED BY <2>1 DEF Closes, Visible, IndexedKeys, TodoKeys, slots
<1> QED BY <1>1, LadderCloses, DecideCloses, VaultCloses, KeyFacts DEF HostStep, Resolve

(* A command brings in keys of the folder or of the operator only.         *)
LEMMA CommandShows ==
  ASSUME CInv, \/ Command
               \/ \E k \in OperatorKey \cup {NoKey} : SetEnv(k)
               \/ \E r \in {"rw", "ro", "off"} : ReachKeychain(r)
               \/ LoseKeychainEntry
  PROVE  /\ minted' = minted
         /\ \A q \in Proc \ {Admin} : key'[q] = key[q]
         /\ Visible' \cup {key'[Admin]} \subseteq
              Visible \cup {key[Admin], NoKey} \cup OldKey \cup OperatorKey
<1> USE KeyFacts
<1> DEFINE S == Visible \cup {key[Admin], NoKey} \cup OldKey \cup OperatorKey
<1> SUFFICES /\ minted' = minted /\ \A q \in Proc \ {Admin} : key'[q] = key[q]
             /\ Visible' \cup {key'[Admin]} \subseteq S
  OBVIOUS
<1>1. /\ {env, keychain, file, legacy, record, key[Admin], NoKey} \subseteq S
      /\ Visible \subseteq S /\ OldKey \cup OperatorKey \subseteq S
      /\ \A e \in todo[Admin] : e[2] \in S
      /\ key \in [Proc -> Key \cup {NoKey}]
      /\ todo \in [Proc -> SUBSET ({"none", "keychain", "file"} \X Key)]
  BY DEF Visible, TodoKeys, CInv, TypeOK
<1>2. Candidates \subseteq S /\ LiveCandidates \subseteq S
  BY <1>1, CandidatesShow DEF Candidates
<1>3. ASSUME UNCHANGED <<index, record, minted>>, {env', keychain', file', legacy'} \subseteq S,
             \A q \in Proc \ {Admin} : key'[q] = key[q] /\ todo'[q] = todo[q],
             \A e \in todo'[Admin] : e[2] \in S, key'[Admin] \in S
      PROVE  /\ minted' = minted /\ \A q \in Proc \ {Admin} : key'[q] = key[q]
             /\ Visible' \cup {key'[Admin]} \subseteq S
  <2>1. /\ {env', keychain', file', legacy', record'} \subseteq S
        /\ \A e \in index' : e \in index
    BY <1>1, <1>3
  <2> HIDE DEF S
  <2>2. Visible' \subseteq S
    BY <1>1, <1>3, <2>1, Shown
  <2> QED BY <1>3, <2>2
<1>4. ASSUME NEW T \in SUBSET S, UNCHANGED <<slots, index, record, minted>>,
             todo' = [todo EXCEPT ![Admin] = {<<"none", o>> : o \in T}],
             key'[Admin] \in S, \A q \in Proc \ {Admin} : key'[q] = key[q]
      PROVE  /\ minted' = minted /\ \A q \in Proc \ {Admin} : key'[q] = key[q]
             /\ Visible' \cup {key'[Admin]} \subseteq S
  <2>1. \A e \in todo'[Admin] : e[2] \in S
    <3>1. todo'[Admin] = {<<"none", o>> : o \in T}
      BY <1>1, <1>4
    <3> QED BY <3>1
  <2>2. \A q \in Proc \ {Admin} : todo'[q] = todo[q]
    BY <1>1, <1>4
  <2>3. {env', keychain', file', legacy'} \subseteq S
    BY <1>1, <1>4 DEF slots
  <2> QED BY <1>3, <1>4, <2>1, <2>2, <2>3
<1> HIDE DEF S
<1>5. ASSUME NEW k \in S, NEW extra, extra \subseteq S, BeginInstall(k, extra)
      PROVE  /\ minted' = minted /\ \A q \in Proc \ {Admin} : key'[q] = key[q]
             /\ Visible' \cup {key'[Admin]} \subseteq S
  <2>1. Superseded(k, extra) \subseteq S
    BY <1>1, <1>2, <1>5 DEF Superseded, Persistent, KeychainKey
  <2>2. /\ UNCHANGED <<slots, index, record, minted>>
        /\ todo' = [todo EXCEPT ![Admin] = {<<"none", o>> : o \in Superseded(k, extra)}]
        /\ key' = [key EXCEPT ![Admin] = k]
    BY <1>5 DEF BeginInstall, Hold, ghosts
  <2>3. key'[Admin] \in S /\ \A q \in Proc \ {Admin} : key'[q] = key[q]
    BY <1>1, <2>2
  <2> QED BY <1>4, <2>1, <2>2, <2>3
<1>6. ASSUME NEW k \in Key, Adopt(k)
      PROVE  /\ minted' = minted /\ \A q \in Proc \ {Admin} : key'[q] = key[q]
             /\ Visible' \cup {key'[Admin]} \subseteq S
  <2>1. k \in S /\ BeginInstall(k, {})
    BY <1>1, <1>2, <1>6 DEF Adopt, Candidates, KeychainKey
  <2> QED BY <1>5, <2>1
<1>7. ASSUME NEW k \in Key, RetireKey(k)
      PROVE  /\ minted' = minted /\ \A q \in Proc \ {Admin} : key'[q] = key[q]
             /\ Visible' \cup {key'[Admin]} \subseteq S
  <2>1. /\ UNCHANGED <<slots, index, record, minted>> /\ k \in S
        /\ todo' = [todo EXCEPT ![Admin] = {<<"none", o>> : o \in {k}}]
        /\ key' = [key EXCEPT ![Admin] = k]
    BY <1>2, <1>7 DEF RetireKey, Hold, ghosts
  <2>2. key'[Admin] \in S /\ \A q \in Proc \ {Admin} : key'[q] = key[q]
    BY <1>1, <2>1
  <2>3. {k} \in SUBSET S
    BY <2>1
  <2> QED BY <1>4, <2>1, <2>2, <2>3
<1>8. ASSUME NEW k \in OperatorKey, NEW extra \in SUBSET (OldKey \cup OperatorKey),
             Import(k, extra)
      PROVE  /\ minted' = minted /\ \A q \in Proc \ {Admin} : key'[q] = key[q]
             /\ Visible' \cup {key'[Admin]} \subseteq S
  <2>1. k \in S /\ extra \subseteq S /\ extra \ {k} \in SUBSET S
    BY <1>1
  <2>2. CASE BeginInstall(k, extra)
    BY <1>5, <2>1, <2>2
  <2>3. CASE ~ BeginInstall(k, extra)
    <3>1. /\ UNCHANGED <<slots, index, record, minted, key>>
          /\ todo' = [todo EXCEPT ![Admin] = {<<"none", o>> : o \in extra \ {k}}]
      BY <1>8, <2>3 DEF Import, ghosts
    <3> QED BY <1>1, <1>4, <2>1, <3>1
  <2> QED BY <2>2, <2>3
<1>9. CASE \/ Install \/ ClearSlot
           \/ \E k \in OperatorKey \cup {NoKey} : SetEnv(k)
           \/ \E r \in {"rw", "ro", "off"} : ReachKeychain(r)
           \/ LoseKeychainEntry
  <2>1. UNCHANGED <<index, record, minted, key, todo>>
    BY <1>9 DEF Install, ClearSlot, SetEnv, ReachKeychain, LoseKeychainEntry, ghosts
  <2>2. {env', keychain', file', legacy'} \subseteq S
    BY <1>1, <1>9 DEF Install, ClearSlot, SetEnv, ReachKeychain, LoseKeychainEntry, slots
  <2>3. /\ \A q \in Proc \ {Admin} : key'[q] = key[q] /\ todo'[q] = todo[q]
        /\ \A e \in todo'[Admin] : e[2] \in S
        /\ key'[Admin] \in S
    BY <1>1, <2>1
  <2>4. UNCHANGED <<index, record, minted>>
    BY <2>1
  <2> QED BY <1>3, <2>2, <2>3, <2>4
<1>10. CASE Command
  <2>1. \/ \E k \in Key : Adopt(k) \/ RetireKey(k)
        \/ \E k \in OperatorKey, extra \in SUBSET (OldKey \cup OperatorKey) : Import(k, extra)
        \/ Install \/ ClearSlot
    BY <1>10 DEF Command
  <2> QED BY <1>6, <1>7, <1>8, <1>9, <2>1
<1> QED BY <1>9, <1>10

LEMMA OtherKeysWait ==
  ASSUME CInv, NEW p \in Proc,
         StoreRetired(p) \/ IndexRetired(p) \/ RecordKey(p) \/ Stop(p)
  PROVE  \A q \in Proc \ {p} : key'[q] = key[q]
  BY DEF StoreRetired, IndexRetired, RecordKey, Stop, CInv, TypeOK

LEMMA ClosedMints ==
  ASSUME CInv, MintInv, NEW p \in Proc, Closes(p), \A q \in Proc \ {p} : key'[q] = key[q],
         minted' \subseteq NewKey
  PROVE  MintInv'
  BY KeyFacts DEF MintInv, Closes

LEMMA MintStays == CInv /\ MintInv /\ [Next]_vars => MintInv'
<1> SUFFICES ASSUME CInv, MintInv, [Next]_vars PROVE MintInv'
  OBVIOUS
<1> USE KeyFacts
<1>1. minted' \subseteq NewKey
  BY NextCInv DEF CInv, TypeOK
<1>2. ASSUME NEW h \in Host, Resolve(h) PROVE MintInv'
  <2>1. HostStep(h)
    BY <1>2 DEF HostStep
  <2> QED BY <1>1, <2>1, HostCloses, OthersWait, ClosedMints
<1>3. ASSUME NEW p \in Proc, StoreRetired(p) \/ IndexRetired(p) \/ RecordKey(p) \/ Stop(p)
      PROVE  MintInv'
  BY <1>1, <1>3, VaultCloses, OtherKeysWait, ClosedMints
<1>4. CASE \/ Command
           \/ \E k \in OperatorKey \cup {NoKey} : SetEnv(k)
           \/ \E r \in {"rw", "ro", "off"} : ReachKeychain(r)
           \/ LoseKeychainEntry
  <2>1. NewKey \cap (OldKey \cup OperatorKey \cup {NoKey}) = {}
    BY CustodyConstants
  <2> QED BY <1>4, <2>1, CommandShows DEF MintInv
<1>5. CASE UNCHANGED vars
  BY <1>5 DEF vars, slots, ghosts, MintInv, Visible, IndexedKeys, TodoKeys
<1> QED BY <1>2, <1>3, <1>4, <1>5 DEF Next

(* A key nobody else ever saw is not seen by the next step of another.     *)
LEMMA FreshStays ==
  ASSUME CInv, NEW h \in Host, HostStep(h), NEW g \in Host \ {h}, Fresh(g)
  PROVE  Fresh(g)'
<1> USE KeyFacts
<1>1. Closes(h) /\ \A p \in Proc \ {h} : key'[p] = key[p]
  BY HostCloses, OthersWait
<1>2. key[g] \in minted /\ key[g] \in Key
  BY DEF Fresh, CInv, TypeOK
<1> QED BY <1>1, <1>2 DEF Fresh, Closes

(* What climbing hosts change: never the environment, the record while one *)
(* of them found it, or the reach of the keychain.                         *)
LEMMA HostLeaves ==
  ASSUME CInv, NEW h \in Host, HostStep(h)
  PROVE  /\ env' = env /\ reach' = reach
         /\ record # NoKey => record' = record
<1>1. ASSUME Resolve(h) PROVE env' = env /\ record' = record
  BY <1>1 DEF Resolve, StartResolve, Climb, StoreInKeychain, VerifyKeychain,
              PublishFile, Decide, Seal, Take, Refuse, FallBack, slots
<1>2. CASE StoreRetired(h) \/ IndexRetired(h) \/ Stop(h)
  BY <1>2 DEF StoreRetired, IndexRetired, Stop, slots
<1>3. CASE RecordKey(h)
  <2>1. record = NoKey
    BY <1>3 DEF RecordKey, CInv, Orderly, InOrder
  <2> QED BY <1>3, <2>1 DEF RecordKey, slots
<1>4. reach' = reach
  BY DEF HostStep, Resolve, StartResolve, Climb, StoreInKeychain, VerifyKeychain,
         PublishFile, Decide, Seal, StoreRetired, IndexRetired, RecordKey, Stop
<1> QED BY <1>1, <1>2, <1>3, <1>4 DEF HostStep

(* The slots under the step of a host.                                     *)
LEMMA SlotSteps ==
  ASSUME CInv, NEW h \in Host, HostStep(h)
  PROVE  \/ UNCHANGED <<keychain, file, legacy>>
         \/ /\ keychain \in Key /\ keychain = KeychainKey /\ legacy = keychain /\ legacy' = NoKey
            /\ UNCHANGED <<keychain, file>>
         \/ /\ pc[h] = "store" /\ reach = "rw" /\ keychain' = key[h]
            /\ UNCHANGED <<file, legacy>>
         \/ /\ pc[h] = "publish" /\ file = NoKey /\ file' = key[h]
            /\ UNCHANGED <<keychain, legacy>>
<1> USE KeyFacts
<1>1. CASE Climb(h)
  BY <1>1 DEF Climb, Take, Refuse, FallBack, KeychainKey, slots
<1>2. CASE StoreInKeychain(h)
  BY <1>2 DEF StoreInKeychain, Take, Refuse, slots
<1>3. CASE VerifyKeychain(h)
  <2>1. key[h] \in Key
    BY <1>3 DEF VerifyKeychain, CInv, HasKey, HoldingStep
  <2> QED BY <1>3, <2>1 DEF VerifyKeychain, Refuse, KeychainKey, slots
<1>4. CASE PublishFile(h)
  BY <1>4 DEF PublishFile, Refuse, slots
<1>5. CASE \/ StartResolve(h) \/ Decide(h) \/ Seal(h)
           \/ StoreRetired(h) \/ IndexRetired(h) \/ RecordKey(h) \/ Stop(h)
  BY <1>5 DEF StartResolve, Decide, Seal, StoreRetired, IndexRetired, RecordKey, Stop, slots
<1> QED BY <1>1, <1>2, <1>3, <1>4, <1>5 DEF HostStep, Resolve

(* How a host comes to write its key: with the key of the fallback slot or *)
(* a new one, after the keychain proved empty, or once the keychain proved *)
(* unwritable.                                                             *)
LEMMA EntersStore ==
  ASSUME CInv, NEW h \in Host, HostStep(h), h \in AtStore'
  PROVE  /\ UNCHANGED <<env, keychain, file, legacy, record, reach, index, todo>>
         /\ \/ h \in AtStore /\ reach # "rw" /\ key' = key /\ minted' = minted
            \/ /\ pc[h] = "ladder" /\ KeychainKey \notin Key
               /\ reach = "rw" => pc'[h] = "store"
               /\ \/ Fallback \in Key /\ key'[h] = Fallback
                  \/ /\ Fallback \notin Key /\ key'[h] \in NewKey \ minted
                     /\ minted' = minted \cup {key'[h]}
<1> USE KeyFacts
<1>1. pc'[h] \in {"store", "publish"}
  BY DEF AtStore
<1>2. /\ pc \in [Proc -> Step] /\ key \in [Proc -> Key \cup {NoKey}]
      /\ pc[h] = "retire" => after[h] \in {"note", "up"}
  BY DEF CInv, TypeOK, Orderly, InOrder
<1>3. ~ Refuse(h)
  BY <1>1, <1>2 DEF Refuse, Goto
<1>4. CASE Climb(h)
  <2>1. PICK s \in {"store", "decide", "publish"} :
          /\ FallBack(h, s) /\ KeychainKey \notin Key
          /\ reach = "rw" => s = "store"
    BY <1>1, <1>2, <1>3, <1>4 DEF Climb, Take, Goto
  <2>2. /\ UNCHANGED <<slots, record, reach, index, todo>> /\ pc[h] = "ladder"
        /\ pc'[h] = s
        /\ \/ Fallback \in Key /\ key'[h] = Fallback
           \/ /\ Fallback \notin Key
              /\ \E k \in NewKey \ minted : key'[h] = k /\ minted' = minted \cup {k}
    BY <1>2, <1>3, <1>4, <2>1 DEF Climb, FallBack, Take, Hold, Goto, Fallback
  <2> QED BY <2>1, <2>2 DEF slots
<1>5. CASE StoreInKeychain(h)
  <2>1. reach # "rw" /\ Take(h, key[h], "file", "publish")
    BY <1>1, <1>2, <1>3, <1>5 DEF StoreInKeychain, Goto
  <2>2. UNCHANGED <<record, reach, index, todo>> /\ pc[h] = "store"
    BY <1>5 DEF StoreInKeychain
  <2>3. key' = key
    BY <1>2, <2>1 DEF Take, Hold
  <2> QED BY <2>1, <2>2, <2>3 DEF Take, slots, AtStore
<1>6. CASE VerifyKeychain(h) \/ PublishFile(h)
  BY <1>1, <1>2, <1>3, <1>6 DEF VerifyKeychain, PublishFile, Goto
<1>7. CASE Decide(h)
  BY <1>1, <1>2, <1>7 DEF Decide, ComeUp, Mismatch, Recover, Goto
<1>8. CASE \/ StartResolve(h) \/ Seal(h) \/ RecordKey(h) \/ Stop(h)
  BY <1>1, <1>2, <1>8 DEF StartResolve, Seal, RecordKey, Stop, Goto
<1>9. CASE StoreRetired(h) \/ IndexRetired(h)
  BY <1>1, <1>2, <1>9 DEF StoreRetired, IndexRetired, Drop, Goto
<1> QED BY <1>4, <1>5, <1>6, <1>7, <1>8, <1>9 DEF HostStep, Resolve

(* Only keys that were minted are visible, so a new key is fresh.          *)
LEMMA EntersFresh ==
  ASSUME CInv, MintInv, NEW h \in Host, HostStep(h),
         UNCHANGED <<env, keychain, file, legacy, record, index, todo>>,
         \/ key' = key /\ minted' = minted /\ Fresh(h)
         \/ key'[h] \in NewKey \ minted /\ minted' = minted \cup {key'[h]}
  PROVE  Fresh(h)'
<1> USE KeyFacts
<1>1. Visible' = Visible
  BY DEF Visible, IndexedKeys, TodoKeys
<1>2. \A p \in Proc \ {h} : key'[p] = key[p]
  BY OthersWait
<1> QED BY <1>1, <1>2 DEF Fresh, MintInv

LEMMA OthersAtStore ==
  ASSUME CInv, NEW h \in Host, HostStep(h), NEW g \in AtStore', g # h
  PROVE  g \in AtStore /\ key'[g] = key[g] /\ key[g] \in Key /\ pc'[g] = pc[g]
  BY KeyFacts, OthersWait DEF AtStore, CInv, HasKey, HoldingStep

LEMMA ClimbStaysUnwritable ==
  ASSUME CInv, MintInv, ClimbInv, NEW h \in Host, HostStep(h), reach # "rw",
         NEW g \in AtStore'
  PROVE  (key[g] \in LiveCandidates \/ Fresh(g))'
<1> USE KeyFacts
<1>1. env' = env /\ reach' = reach
  BY HostLeaves
<1>2. \A k \in LiveCandidates : k \in LiveCandidates'
  <2>1. /\ env' = env /\ reach' = reach /\ {keychain} \cap Key \subseteq {keychain'}
        /\ {file} \cap Key \subseteq {file'}
        /\ legacy' = legacy \/ legacy \notin Key \/ legacy = KeychainKey
        /\ KeychainKey \in Key => keychain' = keychain
    BY <1>1, SlotSteps
  <2> QED BY <2>1 DEF LiveCandidates, KeychainKey
<1>3. CASE g = h
  <2>1. /\ UNCHANGED <<env, keychain, file, legacy, record, reach, index, todo>>
        /\ \/ h \in AtStore /\ key' = key /\ minted' = minted
           \/ Fallback \in Key /\ key'[h] = Fallback
           \/ key'[h] \in NewKey \ minted /\ minted' = minted \cup {key'[h]}
    BY <1>3, EntersStore
  <2>2. LiveCandidates' = LiveCandidates
    BY <2>1 DEF LiveCandidates, KeychainKey
  <2>3. CASE h \in AtStore /\ key' = key /\ minted' = minted
    BY <1>3, <2>1, <2>2, <2>3, EntersFresh DEF ClimbInv
  <2>4. CASE Fallback \in Key /\ key'[h] = Fallback
    BY <1>3, <2>2, <2>4 DEF Fallback, LiveCandidates
  <2>5. CASE key'[h] \in NewKey \ minted /\ minted' = minted \cup {key'[h]}
    BY <1>3, <2>1, <2>5, EntersFresh
  <2> QED BY <2>1, <2>3, <2>4, <2>5
<1>4. CASE g # h
  <2>1. g \in AtStore /\ key'[g] = key[g]
    BY <1>4, OthersAtStore
  <2>2. CASE key[g] \in LiveCandidates
    BY <1>2, <2>1, <2>2
  <2>3. CASE Fresh(g)
    BY <1>4, <2>1, <2>3, FreshStays DEF AtStore
  <2> QED BY <2>1, <2>2, <2>3 DEF ClimbInv
<1> QED BY <1>3, <1>4

LEMMA ClimbStaysWritable ==
  ASSUME CInv, MintInv, ClimbInv, NEW h \in Host, HostStep(h), reach = "rw"
  PROVE  /\ \A g \in Host : pc'[g] # "publish"
         /\ \/ (Fallback \in Key /\ \A g \in AtStore : key[g] = Fallback)'
            \/ (Fallback \notin Key /\ \A g \in AtStore : Fresh(g))'
            \/ (Fallback \notin Key /\ \A g \in AtStore : key[g] = keychain)'
<1> USE KeyFacts
<1>1. ASSUME NEW g \in Host, pc'[g] = "publish" PROVE FALSE
  <2>1. g \in AtStore'
    BY <1>1 DEF AtStore
  <2>2. CASE g = h
    BY <1>1, <2>1, <2>2, EntersStore
  <2>3. CASE g # h
    BY <1>1, <2>1, <2>3, OthersAtStore DEF ClimbInv
  <2> QED BY <2>2, <2>3
<1> SUFFICES \/ Fallback' \in Key /\ \A g \in AtStore' : key'[g] = Fallback'
             \/ Fallback' \notin Key /\ \A g \in AtStore' : Fresh(g)'
             \/ Fallback' \notin Key /\ \A g \in AtStore' : key'[g] = keychain'
  BY <1>1
<1>2. ASSUME NEW g \in AtStore', g # h
      PROVE  g \in AtStore /\ key'[g] = key[g] /\ key[g] \in Key /\ (Fresh(g) => Fresh(g)')
  BY <1>2, OthersAtStore, FreshStays DEF AtStore
<1>3. \/ Fallback \in Key /\ \A g \in AtStore : key[g] = Fallback
      \/ Fallback \notin Key /\ \A g \in AtStore : Fresh(g)
      \/ Fallback \notin Key /\ \A g \in AtStore : key[g] = keychain
  BY DEF ClimbInv
<1>4. CASE h \in AtStore'
  <2>1. UNCHANGED <<env, keychain, file, legacy, record, reach, index, todo>>
        /\ KeychainKey \notin Key
    BY <1>4, EntersStore
  <2>2. Fallback' = Fallback /\ keychain \notin Key
    BY <2>1 DEF Fallback, KeychainKey
  <2>3. CASE Fallback \in Key /\ key'[h] = Fallback
    BY <1>2, <1>3, <2>2, <2>3
  <2>4. CASE Fallback \notin Key /\ key'[h] \in NewKey \ minted /\ minted' = minted \cup {key'[h]}
    <3>1. Fresh(h)'
      BY <2>1, <2>4, EntersFresh
    <3>2. \A g \in AtStore' : g # h => Fresh(g)'
      BY <1>2, <1>3, <2>2, <2>4
    <3> QED BY <2>2, <2>4, <3>1, <3>2
  <2> QED BY <1>4, <2>3, <2>4, EntersStore
<1>5. CASE h \notin AtStore'
  <2>1. \A g \in AtStore' : /\ g \in AtStore /\ key'[g] = key[g] /\ key[g] \in Key
                            /\ Fresh(g) => Fresh(g)'
    BY <1>2, <1>5
  <2>2. CASE UNCHANGED <<keychain, file, legacy>>
    <3>1. Fallback' = Fallback
      BY <2>2 DEF Fallback
    <3> QED BY <1>3, <2>1, <2>2, <3>1
  <2>3. CASE /\ keychain \in Key /\ legacy = keychain /\ legacy' = NoKey
             /\ UNCHANGED <<keychain, file>>
    <3>1. CASE AllowFile /\ file \in Key
      <4>1. Fallback \in Key /\ Fallback' = Fallback
        BY <2>3, <3>1 DEF Fallback
      <4> QED BY <1>3, <2>1, <4>1
    <3>2. CASE ~ (AllowFile /\ file \in Key)
      <4>1. Fallback = keychain /\ Fallback' = NoKey
        BY <2>3, <3>2 DEF Fallback
      <4>2. \A g \in AtStore' : key'[g] = keychain'
        BY <1>3, <2>1, <2>3, <4>1
      <4> QED BY <4>1, <4>2
    <3> QED BY <3>1, <3>2
  <2>4. CASE pc[h] = "store" /\ keychain' = key[h] /\ UNCHANGED <<file, legacy>>
    <3>1. Fallback' = Fallback /\ h \in AtStore
      BY <2>4 DEF Fallback, AtStore
    <3> QED BY <1>3, <2>1, <2>4, <3>1
  <2>5. CASE pc[h] = "publish"
    BY <2>5 DEF ClimbInv
  <2> QED BY <2>2, <2>3, <2>4, <2>5, SlotSteps
<1> QED BY <1>1, <1>4, <1>5

LEMMA ClimbStays == CInv /\ MintInv /\ ClimbInv /\ [Next]_vars => ClimbInv'
<1> SUFFICES ASSUME CInv, MintInv, ClimbInv, [Next]_vars PROVE ClimbInv'
  OBVIOUS
<1>1. ASSUME NEW h \in Host, HostStep(h) PROVE ClimbInv'
  <2>1. reach' = reach
    BY <1>1, HostLeaves
  <2>2. CASE reach # "rw"
    BY <1>1, <2>1, <2>2, ClimbStaysUnwritable DEF ClimbInv
  <2>3. CASE reach = "rw"
    BY <1>1, <2>1, <2>3, ClimbStaysWritable DEF ClimbInv
  <2> QED BY <2>2, <2>3
<1>2. CASE \A h \in Host : pc[h] = "idle" /\ pc'[h] = "idle"
  <2>1. AtStore' = {}
    BY <1>2 DEF AtStore
  <2> QED BY <1>2, <2>1 DEF ClimbInv
<1>3. CASE UNCHANGED vars
  BY <1>3 DEF vars, slots, ghosts, ClimbInv, AtStore, Fallback, LiveCandidates, KeychainKey,
              Fresh, Visible, IndexedKeys, TodoKeys
<1> QED BY <1>1, <1>2, <1>3, WhoSteps

(* No step of a host makes the recorded key readable that was not.         *)
LEMMA StaysUnreadable ==
  ASSUME CInv, SInv, ClimbInv, RefInv, NEW h \in Host, HostStep(h),
         record \in Key, record \notin Candidates
  PROVE  record \notin Candidates'
<1> USE KeyFacts
<1>1. env' = env /\ reach' = reach
  BY HostLeaves
<1>2. pc[h] \in {"store", "publish"} => key[h] # record
  <2>1. SUFFICES ASSUME h \in AtStore PROVE key[h] # record
    BY DEF AtStore
  <2>2. key[h] \in LiveCandidates \/ Fresh(h) \/ (reach = "rw" /\ key[h] = keychain)
          \/ (Fallback \in Key /\ key[h] = Fallback)
    BY <2>1 DEF ClimbInv
  <2>3. Fresh(h) => key[h] # record
    BY DEF Fresh, Visible
  <2>4. key[h] \in Key
    BY <2>1 DEF AtStore, CInv, HasKey, HoldingStep
  <2>5. Fallback \in Key => Fallback \in Candidates
    BY DEF Fallback, Candidates, LiveCandidates
  <2>6. reach = "rw" /\ keychain \in Key => keychain \in Candidates
    BY DEF Candidates, LiveCandidates, KeychainKey
  <2> QED BY <2>2, <2>3, <2>4, <2>5, <2>6 DEF Candidates
<1>3. record \notin LiveCandidates'
  <2>1. record \notin {env, KeychainKey, file, legacy}
    BY DEF Candidates, LiveCandidates
  <2>2. KeychainKey' = KeychainKey \/ KeychainKey' # record
    BY <1>1, <1>2, SlotSteps DEF KeychainKey
  <2>3. file' # record /\ legacy' # record
    BY <1>2, <2>1, SlotSteps
  <2> QED BY <1>1, <2>1, <2>2, <2>3 DEF LiveCandidates
<1>4. record \notin Retired'
  <2>1. record \notin Retired
    BY DEF Candidates
  <2>2. CASE IndexRetired(h) /\ \A k \in Retired' : k \in Retired \/ \E e \in todo[h] : k = e[2]
    <3>1. pc[h] = "retire" /\ after[h] = "up" /\ seen[h] = record
      BY <2>2 DEF IndexRetired, CInv, Orderly, InOrder
    <3>2. \A e \in todo[h] : e[2] # record
      BY <3>1 DEF RefInv
    <3> QED BY <2>1, <2>2, <3>2
  <2> QED BY <2>1, <2>2, RetiredGrows
<1> QED BY <1>3, <1>4 DEF Candidates

(* A refusal of the ladder, or of the decision, is forced when it comes.   *)
LEMMA RefusalForced ==
  ASSUME CInv, RefInv, NEW h \in Host, HostStep(h), pc[h] # "refused"
  PROVE  Forced(h)'
<1> USE KeyFacts
<1>1. SUFFICES ASSUME pc'[h] = "refused", seen'[h] # NoKey
               PROVE  (seen[h] \notin Candidates \/ env \in Key \ {seen[h]})'
  BY DEF Forced
<1>2. pc \in [Proc -> Step] /\ seen \in [Proc -> Key \cup {NoKey}]
      /\ env' = env
  BY HostLeaves DEF CInv, TypeOK
<1>3. ASSUME UNCHANGED <<seen, slots, reach, vault, index>>,
             seen[h] \notin Candidates \/ env \in Key \ {seen[h]}
      PROVE  (seen[h] \notin Candidates \/ env \in Key \ {seen[h]})'
  BY <1>3 DEF Candidates, LiveCandidates, KeychainKey, Retired, Loadable, slots
<1>4. ASSUME Refuse(h), UNCHANGED <<seen, reach, vault, index>>
      PROVE  (seen[h] \notin Candidates \/ env \in Key \ {seen[h]})'
  <2>1. seen[h] \notin Candidates /\ UNCHANGED slots
    BY <1>1, <1>2, <1>4 DEF Refuse, Goto
  <2> QED BY <1>3, <1>4, <2>1
<1>5. CASE Climb(h)
  <2>1. Refuse(h) /\ UNCHANGED <<seen, reach, vault, index>>
    BY <1>1, <1>2, <1>5 DEF Climb, Take, FallBack, Goto
  <2> QED BY <1>4, <2>1
<1>6. CASE StoreInKeychain(h) \/ VerifyKeychain(h) \/ PublishFile(h)
  <2>1. Refuse(h) /\ UNCHANGED <<seen, reach, vault, index>>
    BY <1>1, <1>2, <1>6 DEF StoreInKeychain, VerifyKeychain, PublishFile, Take, Goto
  <2> QED BY <1>4, <2>1
<1>7. CASE Decide(h)
  <2>1. UNCHANGED <<seen, slots, reach, vault, index>> /\ pc[h] = "decide"
    BY <1>7 DEF Decide
  <2>2. seen[h] # NoKey
    BY <1>1, <2>1
  <2>3. /\ seen[h] # key[h]
        /\ seen[h] \notin Candidates \/ source[h] = "env"
    BY <1>1, <1>2, <1>7, <2>2 DEF Decide, ComeUp, Recover, Goto
  <2>4. key[h] \in Key
    BY <2>1 DEF CInv, HasKey, HoldingStep
  <2>5. source[h] = "env" => env \in Key \ {seen[h]}
    BY <2>1, <2>3, <2>4 DEF RefInv
  <2> QED BY <1>3, <2>1, <2>3, <2>5
<1>8. CASE StoreRetired(h) \/ IndexRetired(h)
  <2>1. pc[h] = "retire" /\ after[h] \in {"note", "up"}
    BY <1>8 DEF StoreRetired, IndexRetired, CInv, Orderly, InOrder
  <2> QED BY <1>1, <1>2, <1>8, <2>1 DEF StoreRetired, IndexRetired, Drop, Goto
<1>9. CASE StartResolve(h) \/ Seal(h) \/ RecordKey(h) \/ Stop(h)
  BY <1>1, <1>2, <1>9 DEF StartResolve, Seal, RecordKey, Stop, Goto
<1> QED BY <1>5, <1>6, <1>7, <1>8, <1>9 DEF HostStep, Resolve

(* The decision meets the environment's key under its own name, and a host *)
(* towards the recorded key retires another one.                           *)
LEMMA DecidesAndRetires ==
  ASSUME CInv, RefInv, NEW h \in Host, HostStep(h)
  PROVE  /\ pc'[h] = "decide" /\ source'[h] = "env" => key'[h] = env'
         /\ pc'[h] = "retire" /\ after'[h] = "up" => \A e \in todo'[h] : e[2] # seen'[h]
<1> USE KeyFacts
<1>1. /\ pc \in [Proc -> Step] /\ key \in [Proc -> Key \cup {NoKey}] /\ DOMAIN source = Proc
      /\ DOMAIN todo = Proc /\ DOMAIN after = Proc /\ env' = env
  BY HostLeaves DEF CInv, TypeOK
<1>2. CASE Climb(h)
  <2>1. \A then : FallBack(h, then) =>
          \/ Refuse(h)
          \/ pc'[h] = then /\ source'[h] = "file"
    BY <1>1 DEF FallBack, Take, Hold, Goto
  <2>2. Refuse(h) => pc'[h] \in {"up", "refused"}
    BY <1>1 DEF Refuse, Goto
  <2>3. \A k, src : Take(h, k, src, "decide") => pc'[h] = "decide" /\ source'[h] = src /\ key'[h] = k
    BY <1>1 DEF Take, Hold, Goto
  <2>4. \/ Take(h, env, "env", "decide")
        \/ Refuse(h)
        \/ Hold(h, keychain, "keychain") /\ Goto(h, "decide")
        \/ \E then \in {"store", "decide", "publish"} : FallBack(h, then)
    BY <1>2 DEF Climb
  <2>5. Hold(h, keychain, "keychain") /\ Goto(h, "decide") =>
          pc'[h] = "decide" /\ source'[h] = "keychain"
    BY <1>1 DEF Hold, Goto
  <2> QED BY <1>1, <2>1, <2>2, <2>3, <2>4, <2>5
<1>3. CASE StoreInKeychain(h)
  <2>1. pc'[h] \in {"verify", "publish", "up", "refused"}
    BY <1>1, <1>3 DEF StoreInKeychain, Take, Refuse, Goto
  <2> QED BY <2>1
<1>4. CASE VerifyKeychain(h) \/ PublishFile(h)
  <2>1. \/ pc'[h] \in {"up", "refused"}
        \/ pc'[h] = "decide" /\ source'[h] \in {"keychain", "file"}
    BY <1>1, <1>4 DEF VerifyKeychain, PublishFile, Refuse, Hold, Goto
  <2> QED BY <2>1
<1>5. CASE Decide(h)
  <2>1. pc[h] = "decide" /\ key[h] \in Key /\ seen' = seen
    BY <1>5 DEF Decide, CInv, HasKey, HoldingStep
  <2>2. \A k, then : Recover(h, k, then) =>
          /\ pc'[h] = (IF source[h] = "env" THEN then ELSE "retire")
          /\ todo'[h] = (IF source[h] = "env" THEN {} ELSE {<<"none", key[h]>>})
          /\ after'[h] = then
    BY <1>1 DEF Recover, Goto
  <2>3. \/ pc'[h] \in {"up", "refused", "note"}
        \/ \E k : Recover(h, k, "note")
        \/ seen[h] # key[h] /\ Recover(h, seen[h], "up")
    BY <1>1, <1>5 DEF Decide, ComeUp, Mismatch, Goto
  <2>4. \A e \in {<<"none", key[h]>>} : e[2] = key[h]
    OBVIOUS
  <2> QED BY <2>1, <2>2, <2>3, <2>4
<1>6. CASE StoreRetired(h) \/ IndexRetired(h)
  <2>1. /\ pc[h] = "retire" /\ after' = after /\ seen' = seen /\ after[h] \in {"note", "up"}
    BY <1>6 DEF StoreRetired, IndexRetired, CInv, Orderly, InOrder
  <2>2. pc'[h] \in {"retire", "note", "up", "refused"}
    BY <1>1, <1>6, <2>1 DEF StoreRetired, IndexRetired, Drop, Goto
  <2>3. \A e \in todo'[h] : \E x \in todo[h] : x[2] = e[2]
    BY <1>6, TodoShrinks
  <2> QED BY <2>1, <2>2, <2>3 DEF RefInv
<1>7. CASE StartResolve(h) \/ Seal(h) \/ RecordKey(h) \/ Stop(h)
  <2>1. pc'[h] \in {"ladder", "up", "idle"}
    BY <1>1, <1>7 DEF StartResolve, Seal, RecordKey, Stop, Goto
  <2> QED BY <2>1
<1> QED BY <1>2, <1>3, <1>4, <1>5, <1>6, <1>7 DEF HostStep, Resolve

LEMMA RefStays == CInv /\ SInv /\ ClimbInv /\ RefInv /\ [Next]_vars => RefInv'
<1> SUFFICES ASSUME CInv, SInv, ClimbInv, RefInv, [Next]_vars PROVE RefInv'
  OBVIOUS
<1> USE KeyFacts
<1>1. ASSUME NEW h \in Host, HostStep(h), NEW g \in Host
      PROVE  /\ pc'[g] = "decide" /\ source'[g] = "env" => key'[g] = env'
             /\ pc'[g] = "retire" /\ after'[g] = "up" => \A e \in todo'[g] : e[2] # seen'[g]
             /\ Forced(g)'
  <2>1. env' = env /\ (record # NoKey => record' = record)
    BY <1>1, HostLeaves
  <2>2. pc[g] = "refused" /\ seen[g] # NoKey /\ pc'[g] = "refused" /\ seen'[g] = seen[g]
          => Forced(g)'
    <3>1. SUFFICES ASSUME pc[g] = "refused", seen[g] # NoKey, seen'[g] = seen[g]
                   PROVE  seen[g] \notin Candidates' \/ env' \in Key \ {seen[g]}
      BY DEF Forced
    <3>2. seen[g] = record /\ record \in Key
      BY <3>1 DEF CInv, TypeOK, Orderly, InOrder
    <3>3. record \notin Candidates \/ env \in Key \ {record}
      BY <3>1, <3>2 DEF RefInv, Forced
    <3> QED BY <1>1, <2>1, <3>2, <3>3, StaysUnreadable
  <2>3. CASE g # h
    <3>1. /\ pc'[g] = pc[g] /\ key'[g] = key[g] /\ seen'[g] = seen[g] /\ source'[g] = source[g]
          /\ todo'[g] = todo[g] /\ after'[g] = after[g]
      BY <1>1, <2>3, OthersWait
    <3>2. Forced(g)'
      BY <2>2, <3>1 DEF Forced
    <3> QED BY <2>1, <3>1, <3>2 DEF RefInv
  <2>4. CASE g = h
    <3>1. Forced(h)'
      <4>1. CASE pc[h] # "refused"
        BY <1>1, <4>1, RefusalForced
      <4>2. CASE pc[h] = "refused"
        <5>1. Stop(h)
          BY <1>1, <4>2 DEF HostStep, Resolve, StartResolve, Climb, StoreInKeychain,
             VerifyKeychain, PublishFile, Decide, Seal, StoreRetired, IndexRetired, RecordKey
        <5>2. pc'[h] = "idle"
          BY <5>1 DEF Stop, CInv, TypeOK
        <5> QED BY <5>2 DEF Forced
      <4> QED BY <4>1, <4>2
    <3> QED BY <1>1, <2>4, <3>1, DecidesAndRetires
  <2> QED BY <2>3, <2>4
<1>2. CASE \A h \in Host : pc[h] = "idle" /\ pc'[h] = "idle"
  BY <1>2 DEF RefInv, Forced
<1>3. CASE UNCHANGED vars
  BY <1>3 DEF vars, slots, ghosts, RefInv, Forced, Candidates, LiveCandidates, KeychainKey,
              Retired, Loadable
<1>4. CASE \E h \in Host : HostStep(h)
  BY <1>1, <1>4 DEF RefInv
<1> QED BY <1>2, <1>3, <1>4, WhoSteps

(* However many hosts resolve their key at once, before, after or across   *)
(* an interrupted command: one that refuses a folder with a recorded key   *)
(* could not have read that key anywhere, or the environment names another *)
(* one.  What a second host then writes or retires never turns the refusal *)
(* into a wrong one.                                                       *)
THEOREM RefusalsAreForced == Spec => []RefusalIsForced
<1> USE KeyFacts
<1>1. Init => MintInv /\ ClimbInv /\ RefInv
  <2> SUFFICES ASSUME Init PROVE MintInv /\ ClimbInv /\ RefInv
    OBVIOUS
  <2>1. TodoKeys = {} /\ IndexedKeys = {} /\ AtStore = {}
    BY DEF Init, TodoKeys, IndexedKeys, AtStore
  <2>2. \A p \in Proc : key[p] = NoKey
    BY DEF Init
  <2>3. MintInv
    <3>1. Visible \cup {key[p] : p \in Proc} \subseteq OldKey \cup {NoKey, Bad}
      BY <2>1, <2>2 DEF Visible, Init
    <3> QED BY <3>1, CustodyConstants DEF MintInv
  <2>4. ClimbInv
    BY <2>1 DEF Init, ClimbInv
  <2>5. RefInv
    BY DEF Init, RefInv, Forced
  <2> QED BY <2>3, <2>4, <2>5
<1>2. RefInv => RefusalIsForced
  BY DEF RefInv, Forced, RefusalIsForced
<1> QED BY <1>1, <1>2, Inductive, InitSInv, NextSInv, MintStays, ClimbStays, RefStays, PTL DEF Spec
================================================================================
