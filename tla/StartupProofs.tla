---------------------------- MODULE StartupProofs ----------------------------
(***************************************************************************)
(* Proofs about Startup, for any accounts, numbers of retries, launches and *)
(* outages.                                                                 *)
(***************************************************************************)
EXTENDS Startup, TLAPS

Places ==
    {"down", "components", "enclave", "read", "restoreSrd", "restoreKey",
     "restoreRest", "compare", "genKey", "nonce", "initQuote", "quote", "ias",
     "verify", "online", "height", "sync", "post", "srdChange", "running",
     "hung"}

Registered(k, a) == \E r \in chain : r.key = k /\ r.account = a

\* The places before a key is restored or made, and those after.
Early == {"down", "components", "enclave", "read", "restoreSrd",
          "restoreKey"}
Attesting == {"nonce", "initQuote", "quote", "ias", "verify", "online",
              "height", "sync", "post"}
Late == {"compare", "srdChange", "running", "hung"}

\* A life has at most one key: none before one is restored or made, and the
\* enclave that makes one has none.
KeyInv ==
    /\ pc \in Early => key = NoKey
    /\ pc \in {"restoreSrd", "restoreKey", "restoreRest"} => disk \in Stored
    /\ pc = "restoreRest" => key = disk.key
    /\ pc \in Attesting \cup Late =>
           key \in Keys /\ account \in Accounts \ {<<>>}
    /\ pc # "down" /\ key = NoKey => keys <= starts

\* From the check in the enclave on, the evidence is for the key.
AnswerInv ==
    pc \in {"online", "height", "sync", "post"} => answer.data = key

\* Metadata is only written by a worker that the chain knows, and a worker
\* that restored it is the one the chain knows; keys that were never posted
\* excepted.
RegInv ==
    /\ disk \in Stored /\ disk.key \notin unposted =>
           Registered(disk.key, disk.account)
    /\ pc \in Late /\ key \notin unposted => Registered(key, account)

SInv == TypeOK /\ KeyInv /\ AnswerInv /\ EvidenceIsForKey /\ RegInv

\* Numbers that stand for keys.
LEMMA KeyNumbers ==
    ASSUME NEW n \in Nat, n <= MaxStarts
    PROVE  n + 1 \in Keys /\ NoKey \notin Keys /\ n + 1 # NoKey
BY StartupAssumption DEF Keys, NoKey

\* Stored metadata is told from the absence of it.
LEMMA StoredRecords ==
    /\ NoMeta \notin Stored /\ Torn \notin Stored
    /\ \A s \in Stored : /\ s.key \in Keys /\ s.account \in Accounts \ {<<>>}
                         /\ s.pre \in BOOLEAN
    /\ \A k \in Keys, a \in Accounts \ {<<>>}, p \in BOOLEAN :
           /\ Meta(k, a, p) \in Stored
           /\ Meta(k, a, p).key = k /\ Meta(k, a, p).account = a
BY DEF NoMeta, Torn, Unreadable, Stored, Meta

LEMMA InitSInv == Init => SInv
<1>. SUFFICES ASSUME Init PROVE SInv
  OBVIOUS
<1>1. /\ pc = "down" /\ configured = <<>> /\ tries = 0 /\ answer = NoAnswer
      /\ key = NoKey /\ account = <<>> /\ upgraded = FALSE
      /\ offline = FALSE /\ node = "off" /\ fault = FALSE /\ unposted = {}
      /\ starts = 0 /\ outages = 0
  BY DEF Init
<1>2. 1 \in Keys /\ NoKey \notin Keys /\ NoKey = 0
  BY StartupAssumption DEF Keys, NoKey
<1>5. /\ NoAnswer \in [genuine : BOOLEAN, data : Keys \cup {NoKey}]
      /\ 0 \in 0..MaxStarts /\ 0 \in 0..MaxOutages
      /\ 0 \in 0..(0 + 1) /\ 1 \in 0..(0 + 1) /\ 0 \in Nat
  BY StartupAssumption DEF NoAnswer
<1>3. CASE disk = NoMeta /\ chain = {} /\ vouched = {} /\ keys = 0
  <2>1. TypeOK
    BY <1>1, <1>3, <1>5 DEF TypeOK
  <2>2. KeyInv /\ AnswerInv
    BY <1>1 DEF KeyInv, AnswerInv, Early, Attesting, Late
  <2>3. EvidenceIsForKey /\ RegInv
    BY <1>1, <1>3, StoredRecords DEF EvidenceIsForKey, RegInv, Late
  <2>. QED  BY <2>1, <2>2, <2>3 DEF SInv
<1>4. ASSUME NEW a \in Accounts \ {<<>>},
             disk = Meta(1, a, TRUE),
             chain = {[key |-> 1, account |-> a, evidence |-> 1]},
             vouched = {1}, keys = 1
      PROVE  SInv
  <2>1. disk \in Stored /\ disk.key = 1 /\ disk.account = a
    BY <1>2, <1>4, StoredRecords, ZenonT(40)
  <2>2. TypeOK
    <3>1. \A r \in chain : r.key = 1 /\ r.account = a
      BY <1>4
    <3>. QED  BY <1>1, <1>2, <1>4, <1>5, <2>1, <3>1 DEF TypeOK
  <2>3. KeyInv /\ AnswerInv
    BY <1>1 DEF KeyInv, AnswerInv, Early, Attesting, Late
  <2>4. EvidenceIsForKey
    BY <1>4 DEF EvidenceIsForKey
  <2>5. RegInv
    BY <1>1, <1>4, <2>1 DEF RegInv, Registered, Late
  <2>. QED  BY <2>2, <2>3, <2>4, <2>5 DEF SInv
<1>. QED  BY <1>3, <1>4 DEF Init

(***************************************************************************)
(* What the steps have in common                                            *)
(***************************************************************************)

\* The place and the retries after Goto.
LEMMA GotoType ==
    ASSUME NEW l \in Places, Goto(l)
    PROVE  pc' = l /\ tries' \in Nat
<1>1. QuoteTries \in Nat /\ IasTries - 1 \in Nat /\ PostTries - 1 \in Nat
  BY StartupAssumption
<1>. QED  BY <1>1 DEF Goto

LEMMA PassType ==
    ASSUME TypeOK, NEW l, NEW m \in Places, Pass(l, m)
    PROVE  /\ TypeOK' /\ pc = l /\ pc' = m
           /\ UNCHANGED <<offline, configured, key, account, upgraded, answer,
                          disk, chain, vouched, unposted, node, fault, keys,
                          starts, outages>>
<1>1. /\ Goto(m) /\ pc = l
      /\ UNCHANGED <<offline, configured, key, account, upgraded, answer,
                     disk, chain, vouched, unposted, node, fault, keys,
                     starts, outages>>
  BY DEF Pass, options, enclave, world, bounds
<1>2. pc' = m /\ tries' \in Nat
  BY <1>1, GotoType
<1>. QED  BY <1>1, <1>2 DEF TypeOK, Places

\* What is registered stays so, and metadata is not made up.
LEMMA RegKept ==
    ASSUME RegInv, unposted \subseteq unposted', chain \subseteq chain',
           disk' = disk \/ disk' \notin Stored,
           pc' \in Late => \/ /\ Registered(key, account) \/ pc \in Late
                              /\ key' = key /\ account' = account
                           \/ key' \in unposted'
    PROVE  RegInv'
BY DEF RegInv, Registered

\* A step from one place to the next that changes nothing else.
LEMMA PassSInv ==
    ASSUME SInv, NEW l, NEW m \in Places, Pass(l, m), l # "down",
           m \in Early => l \in Early,
           m \in {"restoreSrd", "restoreKey", "restoreRest"} =>
               disk \in Stored /\ m # "restoreRest",
           m \in Attesting \cup Late => l \in Attesting \cup Late,
           m \in {"online", "height", "sync", "post"} => answer.data = key,
           m \in Late => l \in Late
    PROVE  SInv'
<1>. USE DEF SInv
<1>1. /\ TypeOK' /\ pc = l /\ pc' = m
      /\ UNCHANGED <<offline, configured, key, account, upgraded, answer,
                     disk, chain, vouched, unposted, node, fault, keys,
                     starts, outages>>
  BY PassType
<1>2. KeyInv'
  BY <1>1 DEF KeyInv, Stored, Keys
<1>3. AnswerInv' /\ EvidenceIsForKey'
  BY <1>1 DEF AnswerInv, EvidenceIsForKey
<1>4. RegInv'
  BY <1>1, RegKept
<1>. QED  BY <1>1, <1>2, <1>3, <1>4

\* A process that is gone leaves what is on disk and on the chain.
LEMMA GoneSInv ==
    ASSUME SInv, Gone, UNCHANGED <<vouched, unposted, node, fault, bounds>>,
           disk' = disk \/ disk' = Torn, chain \subseteq chain',
           \A r \in chain' : r.key \in Keys /\ r.account \in Accounts
                             /\ r.evidence = r.key
    PROVE  SInv'
<1>. USE DEF SInv
<1>1. /\ pc' = "down" /\ tries' = 0 /\ answer' = NoAnswer
      /\ key' = NoKey /\ account' = <<>> /\ upgraded' = FALSE
      /\ offline' = FALSE /\ configured' = <<>>
      /\ UNCHANGED <<keys, starts, outages>>
  BY DEF Gone, bounds
<1>2. TypeOK'
  BY <1>1 DEF TypeOK, NoAnswer
<1>3. KeyInv' /\ AnswerInv' /\ EvidenceIsForKey'
  BY <1>1 DEF KeyInv, AnswerInv, EvidenceIsForKey, Early, Attesting,
              Late
<1>4. RegInv'
  BY <1>1, RegKept, StoredRecords DEF Late
<1>. QED  BY <1>2, <1>3, <1>4

LEMMA ExitSInv ==
    ASSUME SInv, Exit
    PROVE  SInv'
<1>1. Gone /\ UNCHANGED <<disk, chain, vouched, unposted, node, fault,
                         bounds>>
  BY DEF Exit, world
<1>2. \A r \in chain' : r.key \in Keys /\ r.account \in Accounts
                        /\ r.evidence = r.key
  BY <1>1 DEF SInv, TypeOK, EvidenceIsForKey
<1>. QED  BY <1>1, <1>2, GoneSInv

\* One more attempt changes the number of attempts left.
LEMMA RetryType ==
    ASSUME TypeOK, Retry
    PROVE  /\ tries' \in Nat
           /\ UNCHANGED <<pc, offline, configured, key, account, upgraded,
                          answer, disk>>
BY DEF Retry, TypeOK, options, enclave

\* A step that changes nothing but retries, the node and counters.
LEMMA SameSInv ==
    ASSUME SInv, TypeOK',
           UNCHANGED <<pc, key, account, answer, disk, chain, unposted, keys,
                       starts>>
    PROVE  SInv'
<1>. USE DEF SInv
<1>1. KeyInv' /\ AnswerInv' /\ EvidenceIsForKey'
  BY DEF KeyInv, AnswerInv, EvidenceIsForKey
<1>2. RegInv'
  BY RegKept
<1>. QED  BY <1>1, <1>2

LEMMA RetrySInv ==
    ASSUME SInv, Retry, UNCHANGED <<world, bounds>>
    PROVE  SInv'
<1>1. /\ TypeOK'
      /\ UNCHANGED <<pc, key, account, answer, disk, chain, unposted, keys,
                     starts>>
  BY RetryType DEF SInv, TypeOK, world, bounds
<1>. QED  BY <1>1, SameSInv

(***************************************************************************)
(* One lemma per step that does more                                        *)
(***************************************************************************)

LEMMA StartSInv ==
    ASSUME SInv, Start
    PROVE  SInv'
<1>. USE DEF SInv
<1>1. /\ pc = "down" /\ starts < MaxStarts /\ starts' = starts + 1
      /\ configured' \in Accounts /\ Goto("components")
      /\ offline' \in BOOLEAN
      /\ UNCHANGED <<key, account, upgraded, answer, disk, chain, vouched,
                     unposted, node, fault, keys, outages>>
  BY DEF Start, InitializeConfig, enclave, world
<1>2. pc' = "components" /\ tries' \in Nat
  BY <1>1, GotoType DEF Places
<1>3. TypeOK'
  BY <1>1, <1>2, StartupAssumption DEF TypeOK
<1>4. KeyInv' /\ AnswerInv' /\ EvidenceIsForKey'
  BY <1>1, <1>2 DEF TypeOK, KeyInv, AnswerInv, EvidenceIsForKey,
                    Early, Attesting, Late
<1>5. RegInv'
  BY <1>1, <1>2, RegKept DEF Late
<1>. QED  BY <1>3, <1>4, <1>5

LEMMA RestoreKeySInv ==
    ASSUME SInv, RestoreKey
    PROVE  SInv'
<1>. USE DEF SInv
<1>1. /\ pc = "restoreKey" /\ disk \in Stored
      /\ key = NoKey /\ keys <= starts
      /\ UNCHANGED <<offline, configured, account, upgraded, answer, disk,
                     chain, vouched, unposted, node, fault, keys, starts,
                     outages>>
  BY DEF RestoreKey, options, world, bounds, KeyInv, Early
<1>2. disk.key \in Keys
  BY <1>1, StoredRecords
<1>3. \/ /\ key' = disk.key /\ pc' = "restoreRest" /\ tries' \in Nat
      \/ /\ fault /\ key' = key /\ pc' = "genKey" /\ tries' \in Nat
  BY GotoType DEF RestoreKey, Places
<1>4. TypeOK'
  BY <1>1, <1>2, <1>3 DEF TypeOK
<1>5. KeyInv'
  BY <1>1, <1>2, <1>3 DEF KeyInv, Early, Attesting, Late
<1>6. AnswerInv' /\ EvidenceIsForKey'
  BY <1>1, <1>3 DEF AnswerInv, EvidenceIsForKey, Early
<1>7. RegInv'
  BY <1>1, <1>3, RegKept DEF Late
<1>. QED  BY <1>4, <1>5, <1>6, <1>7

LEMMA RestoreRestSInv ==
    ASSUME SInv, RestoreRest
    PROVE  SInv'
<1>. USE DEF SInv
<1>1. /\ pc = "restoreRest" /\ disk \in Stored /\ key = disk.key
      /\ UNCHANGED <<offline, configured, key, answer, disk, chain,
                     vouched, unposted, node, fault, keys, starts, outages>>
  BY DEF RestoreRest, options, world, bounds, KeyInv
<1>2. /\ disk.key \in Keys /\ disk.account \in Accounts \ {<<>>}
      /\ disk.pre \in BOOLEAN /\ NoKey \notin Keys
  BY <1>1, StoredRecords DEF Keys, NoKey
<1>3. \/ /\ upgraded' = disk.pre /\ account' = disk.account
         /\ pc' = "compare" /\ tries' \in Nat
      \/ /\ fault /\ pc' = "genKey" /\ tries' \in Nat
         /\ UNCHANGED <<upgraded, account>>
  BY GotoType DEF RestoreRest, Places
<1>4. TypeOK'
  BY <1>1, <1>2, <1>3 DEF TypeOK
<1>5. KeyInv'
  BY <1>1, <1>2, <1>3 DEF KeyInv, Early, Attesting, Late
<1>6. AnswerInv' /\ EvidenceIsForKey'
  BY <1>1, <1>3 DEF AnswerInv, EvidenceIsForKey, Early
<1>7. RegInv'
  <2>1. CASE pc' = "genKey"
    BY <1>1, <2>1, RegKept DEF Late
  <2>2. CASE pc' = "compare"
    BY <1>1, <1>3, <2>2 DEF RegInv, Registered
  <2>. QED  BY <1>3, <2>1, <2>2
<1>. QED  BY <1>4, <1>5, <1>6, <1>7

LEMMA GenKeySInv ==
    ASSUME SInv, GenKey
    PROVE  SInv'
<1>. USE DEF SInv
<1>1. CASE key = NoKey /\ configured # <<>> /\ NewKey /\ UNCHANGED disk
  <2>1. /\ pc = "genKey" /\ key' = keys + 1 /\ keys' = keys + 1
        /\ account' = configured
        /\ UNCHANGED <<offline, configured, upgraded, answer, disk, chain,
                       vouched, node, fault, starts, outages>>
    BY <1>1 DEF GenKey, Exit, NewKey, options
  <2>2. /\ tries' \in Nat
        /\ \/ pc' = "nonce" /\ unposted' = unposted
           \/ pc' = "srdChange" /\ unposted' = unposted \cup {key'}
    BY <1>1, GotoType DEF NewKey, Places
  <2>3. /\ keys \in Nat /\ keys <= starts /\ starts <= MaxStarts
        /\ starts \in Nat /\ MaxStarts \in Nat
    BY <1>1, <2>1, StartupAssumption DEF KeyInv, TypeOK
  <2>4. /\ key' \in Keys /\ key' # NoKey
        /\ account' \in Accounts \ {<<>>}
    <3>1. configured # <<>> /\ configured \in Accounts \cup {<<>>}
      BY <1>1 DEF TypeOK
    <3>2. keys <= MaxStarts
      BY <2>3
    <3>. QED  BY <2>1, <2>3, <3>1, <3>2, KeyNumbers
  <2>5. TypeOK'
    <3>1. unposted' \subseteq Keys /\ pc' \in Places
      BY <2>2, <2>4 DEF TypeOK, Places
    <3>2. keys' \in 0..(starts' + 1)
      BY <2>1, <2>3
    <3>. QED  BY <2>1, <2>2, <2>4, <3>1, <3>2 DEF TypeOK, Places
  <2>6. KeyInv'
    BY <2>1, <2>2, <2>4 DEF KeyInv, Early, Attesting, Late
  <2>7. AnswerInv' /\ EvidenceIsForKey'
    BY <2>1, <2>2 DEF AnswerInv, EvidenceIsForKey, Early
  <2>8. RegInv'
    BY <2>1, <2>2, RegKept DEF Late
  <2>. QED  BY <2>5, <2>6, <2>7, <2>8
<1>. QED  BY <1>1, ExitSInv DEF GenKey

LEMMA PostIasSInv ==
    ASSUME SInv, PostIas
    PROVE  SInv'
<1>. USE DEF SInv
<1>1. CASE /\ vouched' = vouched \cup {key}
           /\ answer' \in [genuine : {TRUE}, data : vouched'] \cup {NoAnswer}
           /\ Goto("verify")
           /\ UNCHANGED <<options, enclave, disk, chain, unposted, node,
                          fault, bounds>>
  <2>1. pc' = "verify" /\ tries' \in Nat
    BY <1>1, GotoType DEF Places
  <2>2. /\ pc = "ias"
        /\ UNCHANGED <<offline, configured, key, account, upgraded, disk,
                       chain, unposted, node, fault, keys, starts, outages>>
    BY <1>1 DEF PostIas, options, enclave, bounds
  <2>3. key \in Keys
    BY <2>2 DEF KeyInv, Attesting
  <2>4. vouched' \subseteq Keys
    BY <1>1, <2>3 DEF TypeOK
  <2>5. answer' \in [genuine : BOOLEAN, data : Keys \cup {NoKey}]
    <3>1. CASE answer' \in [genuine : {TRUE}, data : vouched']
      BY <2>4, <3>1
    <3>2. CASE answer' = NoAnswer
      BY <3>2 DEF NoAnswer
    <3>. QED  BY <1>1, <3>1, <3>2
  <2>6. TypeOK'
    BY <2>1, <2>2, <2>4, <2>5 DEF TypeOK
  <2>7. KeyInv'
    BY <2>1, <2>2 DEF KeyInv, Early, Attesting, Late
  <2>8. AnswerInv' /\ EvidenceIsForKey'
    BY <2>1, <2>2 DEF AnswerInv, EvidenceIsForKey, Early
  <2>9. RegInv'
    BY <2>1, <2>2, RegKept DEF Late
  <2>. QED  BY <2>6, <2>7, <2>8, <2>9
<1>. QED  BY <1>1, RetrySInv, ExitSInv DEF PostIas

\* The only step that adds to the chain adds evidence for the key.
LEMMA PostIdentitySInv ==
    ASSUME SInv, PostIdentity
    PROVE  SInv'
<1>. USE DEF SInv
<1>0. pc = "post" /\ key \in Keys /\ account \in Accounts
      /\ answer.data = key
  BY DEF PostIdentity, KeyInv, AnswerInv, Attesting
<1>1. CASE chain' = chain \cup {Identity}
           /\ UNCHANGED <<vouched, unposted, node, fault, bounds>>
  <2>1. \A r \in chain' : r.key \in Keys /\ r.account \in Accounts
                          /\ r.evidence = r.key
    BY <1>0, <1>1 DEF Identity, TypeOK, EvidenceIsForKey
  <2>2. UNCHANGED <<vouched, unposted, node, fault, keys, starts, outages>>
    BY <1>1 DEF bounds
  <2>3. CASE Goto("srdChange") /\ UNCHANGED <<options, enclave, answer,
                                              disk>>
    <3>1. /\ pc' = "srdChange" /\ tries' \in Nat
          /\ UNCHANGED <<offline, configured, key, account, upgraded, answer,
                         disk>>
      BY <2>3, GotoType DEF Places, options, enclave
    <3>2. TypeOK'
      BY <2>1, <2>2, <3>1 DEF TypeOK
    <3>3. KeyInv'
      BY <1>0, <2>2, <3>1 DEF KeyInv, Early, Attesting, Late
    <3>4. AnswerInv' /\ EvidenceIsForKey'
      BY <2>1, <2>2, <3>1 DEF AnswerInv, EvidenceIsForKey, Early
    <3>5. (\E r \in chain' : r.key = key /\ r.account = account)
          /\ chain \subseteq chain'
      <4>1. Identity \in chain' /\ chain \subseteq chain'
        BY <1>1
      <4>2. Identity.key = key /\ Identity.account = account
        BY DEF Identity
      <4>. QED  BY <4>1, <4>2
    <3>6. RegInv'
      BY <2>2, <3>1, <3>5 DEF RegInv, Registered
    <3>. QED  BY <3>2, <3>3, <3>4, <3>6
  <2>4. CASE Retry
    <3>1. tries' \in Nat /\ UNCHANGED <<pc, offline, configured, key, account,
                                        upgraded, answer, disk>>
      BY <2>4, RetryType
    <3>2. TypeOK'
      BY <2>1, <2>2, <3>1 DEF TypeOK
    <3>3. KeyInv' /\ AnswerInv' /\ EvidenceIsForKey'
      BY <2>1, <2>2, <3>1 DEF KeyInv, AnswerInv, EvidenceIsForKey
    <3>4. RegInv'
      BY <1>1, <2>2, <3>1, RegKept
    <3>. QED  BY <3>2, <3>3, <3>4
  <2>5. CASE Gone /\ UNCHANGED disk
    BY <1>1, <2>1, <2>5, GoneSInv
  <2>. QED  BY <1>1, <2>3, <2>4, <2>5 DEF PostIdentity, Exit, world
<1>. QED  BY <1>1, RetrySInv, ExitSInv DEF PostIdentity

LEMMA StoreMetadataSInv ==
    ASSUME SInv, StoreMetadata
    PROVE  SInv'
<1>. USE DEF SInv
<1>1. /\ pc = "running" /\ pc' \in {"running", "hung"}
      /\ key \in Keys /\ account \in Accounts \ {<<>>}
      /\ UNCHANGED <<offline, configured, key, account, upgraded, tries, answer,
                     chain, vouched, unposted, node, fault, keys, starts,
                     outages>>
  BY DEF StoreMetadata, options, enclave, world, bounds, KeyInv, Late
<1>2. upgraded \in BOOLEAN
  BY DEF TypeOK
<1>3. /\ disk' \in {disk, Torn, Meta(key, account, upgraded)}
      /\ disk' \in Stored \cup {NoMeta, Torn}
  BY <1>1, <1>2, StoredRecords DEF StoreMetadata, TypeOK
<1>4. TypeOK'
  BY <1>1, <1>3 DEF TypeOK
<1>5. KeyInv' /\ AnswerInv' /\ EvidenceIsForKey'
  BY <1>1 DEF KeyInv, AnswerInv, EvidenceIsForKey, Early, Attesting,
              Late
<1>6. RegInv'
  <2>1. pc \in Late /\ pc' \in Late
    BY <1>1 DEF Late
  <2>2. CASE disk' \in {disk, Torn}
    BY <1>1, <2>1, <2>2, RegKept, StoredRecords
  <2>3. CASE disk' = Meta(key, account, upgraded)
    <3>1. disk'.key = key /\ disk'.account = account
      BY <1>1, <1>2, <2>3, StoredRecords
    <3>. QED  BY <1>1, <2>1, <3>1 DEF RegInv, Registered
  <2>. QED  BY <1>3, <2>2, <2>3
<1>. QED  BY <1>4, <1>5, <1>6

LEMMA KillSInv ==
    ASSUME SInv, Kill
    PROVE  SInv'
<1>1. /\ Gone /\ disk' \in {disk, Torn}
      /\ UNCHANGED <<chain, vouched, unposted, node, fault, bounds>>
  BY DEF Kill, world
<1>2. \A r \in chain' : r.key \in Keys /\ r.account \in Accounts
                        /\ r.evidence = r.key
  BY <1>1 DEF SInv, TypeOK, EvidenceIsForKey
<1>. QED  BY <1>1, <1>2, GoneSInv

\* The environment and stuttering.
LEMMA WorldSInv ==
    ASSUME SInv, NodeUp \/ NodeDown \/ Fault \/ UNCHANGED vars
    PROVE  SInv'
<1>1. UNCHANGED <<pc, key, account, answer, disk, chain, unposted, keys,
                  starts>>
  BY DEF NodeUp, NodeDown, Fault, vars, options, enclave, world, bounds
<1>2. TypeOK'
  <2>1. /\ UNCHANGED <<offline, configured, upgraded, tries, vouched,
                     unposted>>
        /\ node' \in {"off", "young", "syncing", "ready"}
        /\ fault' \in BOOLEAN
    BY DEF SInv, TypeOK, NodeUp, NodeDown, Fault, vars, options, enclave, world, bounds
  <2>2. outages' \in 0..MaxOutages
    <3>1. MaxOutages \in Nat /\ outages \in 0..MaxOutages
      BY StartupAssumption DEF SInv, TypeOK
    <3>2. \/ outages' = outages
          \/ outages < MaxOutages /\ outages' = outages + 1
      BY DEF NodeUp, NodeDown, Fault, vars, bounds
    <3>. QED  BY <3>1, <3>2
  <2>. QED  BY <1>1, <2>1, <2>2 DEF SInv, TypeOK
<1>. QED  BY <1>1, <1>2, SameSInv

\* A failed allocation after the check: the start goes on without an upload.
LEMMA UnpostedSInv ==
    ASSUME SInv, pc = "verify", Goto("srdChange"),
           unposted' = unposted \cup {key},
           UNCHANGED <<options, enclave, answer, disk, chain, vouched, node,
                       fault, bounds>>
    PROVE  SInv'
<1>. USE DEF SInv
<1>1. /\ pc' = "srdChange" /\ tries' \in Nat
      /\ UNCHANGED <<offline, configured, key, account, upgraded, keys,
                     starts, outages>>
  BY GotoType DEF Places, options, enclave, bounds
<1>2. key \in Keys /\ account \in Accounts \ {<<>>} /\ NoKey \notin Keys
  BY DEF KeyInv, Attesting, Keys, NoKey
<1>3. TypeOK'
  BY <1>1, <1>2 DEF TypeOK
<1>4. KeyInv' /\ AnswerInv' /\ EvidenceIsForKey'
  BY <1>1, <1>2 DEF KeyInv, AnswerInv, EvidenceIsForKey, Early, Attesting, Late
<1>5. RegInv'
  BY <1>1, RegKept
<1>. QED  BY <1>3, <1>4, <1>5

\* The steps that only go on to the next place, or exit.
LEMMA PassingSInv ==
    ASSUME SInv,
           \/ InitializeComponents \/ InitializeEnclave \/ ReadMetadata
           \/ RestoreSrd \/ CompareAccount \/ Nonce \/ InitQuote \/ GetQuote
           \/ VerifyIdentity \/ WaitOnline \/ WaitHeight \/ WaitSync
           \/ SetSrdChange
    PROVE  SInv'
<1>. USE PassSInv, ExitSInv DEF Places, Early, Attesting, Late
<1>1. CASE InitializeComponents
  BY <1>1 DEF InitializeComponents
<1>2. CASE InitializeEnclave
  BY <1>2 DEF InitializeEnclave
<1>3. CASE ReadMetadata
  BY <1>3 DEF ReadMetadata
<1>4. CASE RestoreSrd
  <2>1. disk \in Stored
    BY <1>4 DEF RestoreSrd, Pass, SInv, KeyInv
  <2>. QED  BY <1>4, <2>1 DEF RestoreSrd
<1>5. CASE CompareAccount
  BY <1>5 DEF CompareAccount
<1>6. CASE Nonce
  BY <1>6 DEF Nonce
<1>7. CASE InitQuote
  BY <1>7, RetrySInv DEF InitQuote
<1>8. CASE GetQuote
  BY <1>8 DEF GetQuote
<1>9. CASE VerifyIdentity
  BY <1>9, UnpostedSInv DEF VerifyIdentity, Vouches
<1>10. CASE WaitOnline \/ WaitHeight \/ WaitSync
  <2>1. pc \in {"online", "height", "sync"} => answer.data = key
    BY DEF SInv, AnswerInv
  <2>. QED  BY <1>10, <2>1 DEF WaitOnline, WaitHeight, WaitSync, Pass
<1>11. CASE SetSrdChange
  BY <1>11 DEF SetSrdChange
<1>. QED
  BY <1>1, <1>2, <1>3, <1>4, <1>5, <1>6, <1>7, <1>8, <1>9, <1>10, <1>11

LEMMA NextSInv ==
    ASSUME SInv, [Next]_vars
    PROVE  SInv'
BY StartSInv, PassingSInv, RestoreKeySInv, RestoreRestSInv, GenKeySInv,
   PostIasSInv, PostIdentitySInv, StoreMetadataSInv, KillSInv, WorldSInv
DEF Next, Step

(***************************************************************************)
(* Theorems                                                                 *)
(***************************************************************************)

\* The invariant the others follow from holds in every behaviour.
THEOREM StartInvariant == Spec => []SInv
<1>1. SInv /\ [Next]_vars => SInv'
  BY NextSInv
<1>. QED  BY InitSInv, <1>1, PTL DEF Spec

\* Types are kept; in particular the launches bound the keys (id_gen_key_pair).
THEOREM StartupTypes == Spec => []TypeOK
<1>1. SInv => TypeOK
  BY DEF SInv
<1>. QED  BY StartInvariant, <1>1, PTL

\* No identity is registered with evidence for another key, whatever answers
\* of IAS come back (id_verify_and_upload_identity).
THEOREM EvidenceMatches == Spec => []EvidenceIsForKey
<1>1. SInv => EvidenceIsForKey
  BY DEF SInv
<1>. QED  BY StartInvariant, <1>1, PTL

\* A working worker is registered, whenever it was killed before
\* (process_run, id_store_metadata, id_restore_metadata).
THEOREM WorkersAreRegistered == Spec => []RunningIsRegistered
<1>1. SInv => RunningIsRegistered
  BY DEF SInv, RegInv, Registered, RunningIsRegistered, Up, Late
<1>. QED  BY StartInvariant, <1>1, PTL

\* The key pair of an enclave is set once (id_gen_key_pair,
\* id_restore_metadata).
THEOREM KeySetOnce == Spec => OneKeyPerLife
<1>1. SInv /\ [Next]_vars =>
          [key # NoKey /\ pc' # "down" => key' = key]_vars
  <2>. SUFFICES ASSUME SInv, Next, key # NoKey, pc' # "down"
                PROVE  key' = key
    BY DEF vars, enclave
  <2>1. /\ pc \notin Early
    BY DEF SInv, KeyInv
  <2>2. ~Start /\ ~RestoreKey /\ ~Exit /\ ~Kill
    BY <2>1 DEF Start, RestoreKey, Exit, Gone, Kill, Early
  <2>3. GenKey => FALSE
    BY <2>2 DEF GenKey
  <2>4. \A l, m : Pass(l, m) => key' = key
    BY DEF Pass, options, enclave
  <2>5. Retry => key' = key
    BY DEF Retry, enclave
  <2>6. PostIdentity \/ PostIas => key' = key
    BY <2>2, <2>5 DEF PostIdentity, PostIas, Gone, enclave
  <2>7. RestoreRest \/ StoreMetadata \/ NodeUp \/ NodeDown \/ Fault
            => key' = key
    BY DEF RestoreRest, StoreMetadata, NodeUp, NodeDown, Fault, enclave
  <2>8. ( \/ InitializeComponents \/ InitializeEnclave \/ ReadMetadata
          \/ RestoreSrd \/ CompareAccount \/ Nonce \/ InitQuote \/ GetQuote
          \/ VerifyIdentity \/ WaitOnline \/ WaitHeight \/ WaitSync
          \/ SetSrdChange ) => key' = key
    BY <2>2, <2>4, <2>5
    DEF InitializeComponents, InitializeEnclave, ReadMetadata, RestoreSrd,
        CompareAccount, Nonce, InitQuote, GetQuote, VerifyIdentity,
        WaitOnline, WaitHeight, WaitSync, SetSrdChange, enclave
  <2>9. Next /\ ~Start /\ ~RestoreKey /\ ~GenKey /\ ~Kill
    BY <2>2, <2>3
  <2>. QED  BY <2>6, <2>7, <2>8, <2>9, Zenon DEF Next, Step
<1>. QED  BY StartInvariant, <1>1, PTL DEF Spec, OneKeyPerLife
==============================================================================
