------------------------------- MODULE Startup -------------------------------
(***************************************************************************)
(* A worker from its launch to its work threads: components and enclave,    *)
(* then either the metadata of an earlier life is restored or a new key is  *)
(* made, attested (quote, IAS, check in the enclave) and registered on the  *)
(* chain. The process may be killed at any point and launched again, also   *)
(* with another account or option; memory or the database may fail.         *)
(*                                                                          *)
(* A definition introduced as a Variant is a mistaken form of the one that  *)
(* follows it; no specification uses it.                                    *)
(***************************************************************************)
EXTENDS Integers, Sequences

CONSTANTS
    Accounts,       \* account ids a configuration may hold: sequences
    QuoteTries,     \* common_tryout
    IasTries,       \* IAS_TRYOUT
    PostTries,      \* attempts of post_sworker_identity
    MaxStarts,      \* bound: launches
    MaxOutages      \* bound: times the chain node goes down

ASSUME StartupAssumption ==
    /\ \A a \in Accounts : a \in Seq(Nat)
    /\ {QuoteTries, MaxStarts, MaxOutages} \subseteq Nat
    /\ {IasTries, PostTries} \subseteq Nat \ {0}

VARIABLES
    pc,         \* where the process is in its start
    offline,    \* --offline was given at this launch
    configured, \* account id of the configuration read at this launch
    key, account,   \* of the enclave
    upgraded,   \* the enclave took over from an older version
    tries,      \* retries left of the current retry loop
    answer,     \* the IAS answer handed to the enclave
    disk,       \* ID_METADATA
    chain,      \* identities the chain took
    vouched,    \* ghost: keys IAS vouched for
    unposted,   \* ghost: new keys a start went on with and did not post
    node,       \* the chain node
    fault,      \* memory or the database has failed
    keys, starts, outages   \* counters of the bounds

options == <<offline, configured>>
enclave == <<key, account, upgraded>>
bounds == <<keys, starts, outages>>
world == <<chain, vouched, unposted, node, fault>>
vars == <<pc, options, enclave, tries, answer, disk, world, bounds>>

NoKey == 0
Keys == 1..(MaxStarts + 1)   \* a life makes one key at most
Unreadable(s) == [state |-> s, key |-> NoKey, account |-> <<>>, pre |-> FALSE]
NoMeta == Unreadable("none")
Torn == Unreadable("torn")      \* not fit to be restored
NoAnswer == [genuine |-> FALSE, data |-> NoKey]
Stored == [state : {"whole"}, key : Keys, account : Accounts \ {<<>>},
           pre : BOOLEAN]
Meta(k, a, p) == [state |-> "whole", key |-> k, account |-> a, pre |-> p]

\* A first start, or the first restart of a worker that took over its
\* workload from an older version and registered then.
Init ==
    /\ pc = "down" /\ configured = <<>> /\ tries = 0 /\ answer = NoAnswer
    /\ key = NoKey /\ account = <<>> /\ upgraded = FALSE
    /\ offline = FALSE /\ node = "off" /\ fault = FALSE /\ unposted = {}
    /\ \/ /\ disk = NoMeta /\ chain = {} /\ vouched = {} /\ keys = 0
       \/ \E a \in Accounts \ {<<>>} :
            /\ disk = Meta(1, a, TRUE)
            /\ chain = {[key |-> 1, account |-> a, evidence |-> 1]}
            /\ vouched = {1} /\ keys = 1
    /\ starts = 0 /\ outages = 0

\* Going on to the step at l, which may be the start of a retry loop.
Goto(l) ==
    /\ pc' = l
    /\ tries' = CASE l = "initQuote" -> QuoteTries
                  [] l = "ias" -> IasTries - 1
                  [] l = "post" -> PostTries - 1
                  [] OTHER -> 0

\* The process is gone, and the memory of the enclave with it.
Gone ==
    /\ pc' = "down" /\ tries' = 0 /\ answer' = NoAnswer
    /\ key' = NoKey /\ account' = <<>> /\ upgraded' = FALSE
    /\ offline' = FALSE /\ configured' = <<>>

Exit == Gone /\ UNCHANGED <<disk, world, bounds>>

\* Variant: one attempt too many.
RetryOnceMore ==
    /\ tries >= 0 /\ tries' = tries - 1
    /\ UNCHANGED <<pc, options, enclave, answer, disk>>

\* One more attempt of a retry loop.
Retry ==
    /\ tries > 0 /\ tries' = tries - 1
    /\ UNCHANGED <<pc, options, enclave, answer, disk>>

\* The step at l goes on to the one at m and changes nothing else.
Pass(l, m) ==
    /\ pc = l /\ Goto(m)
    /\ UNCHANGED <<options, enclave, answer, disk, world, bounds>>

(***************************************************************************)
(* Launch                                                                   *)
(***************************************************************************)

\* The configuration file may have been edited since the last start.
InitializeConfig == configured' \in Accounts

\* main reads the options, which may differ from those of the last launch.
Start ==
    /\ pc = "down" /\ starts < MaxStarts
    /\ starts' = starts + 1
    /\ offline' \in BOOLEAN /\ InitializeConfig
    /\ Goto("components")
    /\ UNCHANGED <<enclave, answer, disk, world, keys, outages>>

\* Directories, chain client, web service and database.
InitializeComponents ==
    \/ Pass("components", "enclave")
    \/ pc = "components" /\ Exit

\* SGX support, a new enclave, its measurement.
InitializeEnclave ==
    \/ Pass("enclave", "read")
    \/ pc = "enclave" /\ Exit

(***************************************************************************)
(* Restore mode                                                             *)
(***************************************************************************)

\* id_get_metadata: no metadata, torn metadata and a failed read are one, and
\* so is a text whose srd is refused: the start goes on as a first one.
ReadMetadata ==
    \/ disk \in Stored /\ Pass("read", "restoreSrd")
    \/ (disk \notin Stored \/ fault) /\ Pass("read", "genKey")

\* What a failure has restored so far stays, except srd.
RestoreSrd ==
    \/ Pass("restoreSrd", "restoreKey")
    \/ fault /\ Pass("restoreSrd", "genKey")

\* memcmp over the length of the configured id.
SameAccount(stored, given) ==
    /\ Len(given) <= Len(stored)
    /\ \A i \in DOMAIN given : stored[i] = given[i]

\* The files, then the key pair.
RestoreKey ==
    /\ pc = "restoreKey"
    /\ \/ key' = disk.key /\ Goto("restoreRest")
       \/ fault /\ Goto("genKey") /\ UNCHANGED key
    /\ UNCHANGED <<options, account, upgraded, answer, disk, world, bounds>>

\* The key of the older version, the account, the restart flag.
RestoreRest ==
    /\ pc = "restoreRest"
    /\ \/ /\ upgraded' = disk.pre /\ account' = disk.account
          /\ Goto("compare")
       \/ /\ disk.pre /\ fault /\ Goto("genKey")
          /\ UNCHANGED <<upgraded, account>>
    /\ UNCHANGED <<options, key, answer, disk, world, bounds>>

CompareAccount ==
    \/ SameAccount(account, configured) /\ Pass("compare", "running")
    \/ pc = "compare" /\ ~SameAccount(account, configured) /\ Exit

(***************************************************************************)
(* Normal mode: a new key                                                   *)
(***************************************************************************)

NewKey ==
    /\ key' = keys + 1 /\ keys' = keys + 1
    /\ account' = configured
    /\ \/ ~offline /\ Goto("nonce") /\ UNCHANGED unposted
       \/ offline /\ Goto("srdChange") /\ unposted' = unposted \cup {key'}
    /\ UNCHANGED <<options, upgraded, answer, chain, vouched, node, fault,
                   starts, outages>>

\* Variant: a key that is already set is replaced.
GenKeyAgain ==
    /\ pc = "genKey"
    /\ \/ configured # <<>> /\ NewKey /\ UNCHANGED disk
       \/ Exit

\* Variant: the new key is stored at once.
GenKeyStore ==
    /\ pc = "genKey"
    /\ \/ /\ key = NoKey /\ configured # <<>> /\ NewKey
          /\ disk' = Meta(keys + 1, configured, FALSE)
       \/ Exit

\* An enclave with a key makes no other one.
GenKey ==
    /\ pc = "genKey"
    /\ \/ key = NoKey /\ configured # <<>> /\ NewKey /\ UNCHANGED disk
       \/ Exit

(***************************************************************************)
(* Attestation                                                              *)
(***************************************************************************)

\* RDRAND is asked until it answers: retry is never counted down.
Nonce == Pass("nonce", "initQuote")


\* Only a busy device is asked again.
InitQuote ==
    \/ Pass("initQuote", "quote")
    \/ pc = "initQuote" /\ Retry /\ UNCHANGED <<world, bounds>>
    \/ pc = "initQuote" /\ Exit

\* The report of the enclave carries its public key; the quote signs it.
GetQuote ==
    \/ Pass("quote", "ias")
    \/ pc = "quote" /\ Exit

\* IAS vouches for the key of the quote; what arrives is that answer, an
\* earlier one, or none of IAS.
PostIas ==
    /\ pc = "ias"
    /\ \/ /\ vouched' = vouched \cup {key}
          /\ answer' \in [genuine : {TRUE}, data : vouched'] \cup {NoAnswer}
          /\ Goto("verify")
          /\ UNCHANGED <<options, enclave, disk, chain, unposted, node,
                         fault, bounds>>
       \/ Retry /\ UNCHANGED <<world, bounds>>
       \/ tries = 0 /\ Exit

\* The certificate chain leads to Intel's root, and its first certificate
\* verifies the signature.
Certified == answer.genuine

\* Variant: the public key in the report is not compared.
VouchesUnchecked == Certified

\* The public key and the measurement in the report are those of the enclave.
Vouches == Certified /\ answer.data = key

\* Two failed allocations leave the status at SUCCESS: nothing is uploaded,
\* and the start goes on.
VerifyIdentity ==
    \/ Vouches /\ Pass("verify", "online")
    \/ /\ pc = "verify" /\ Certified /\ fault /\ Goto("srdChange")
       /\ unposted' = unposted \cup {key}
       /\ UNCHANGED <<options, enclave, answer, disk, chain, vouched, node,
                      fault, bounds>>
    \/ pc = "verify" /\ Exit

(***************************************************************************)
(* Registration                                                             *)
(***************************************************************************)

\* wait_for_running: online, 10 blocks high, not syncing. A header that
\* cannot be fetched is dereferenced.
WaitOnline == node # "off" /\ Pass("online", "height")

WaitHeight ==
    \/ node \in {"syncing", "ready"} /\ Pass("height", "sync")
    \/ pc = "height" /\ node = "off" /\ Exit

WaitSync ==
    \/ node = "ready" /\ Pass("sync", "post")
    \/ pc = "sync" /\ node = "off" /\ Exit

Identity == [key |-> key, account |-> account, evidence |-> answer.data]

\* The chain may take the identity although its answer is lost.
PostIdentity ==
    /\ pc = "post"
    /\ \/ /\ node # "off" /\ chain' = chain \cup {Identity}
          /\ UNCHANGED <<vouched, unposted, node, fault, bounds>>
          /\ \/ Goto("srdChange")
                /\ UNCHANGED <<options, enclave, answer, disk>>
             \/ Retry
             \/ tries = 0 /\ Gone /\ UNCHANGED disk
       \/ Retry /\ UNCHANGED <<world, bounds>>
       \/ tries = 0 /\ Exit

\* srd_set_change with the configured capacity.
SetSrdChange == Pass("srdChange", "running")

(***************************************************************************)
(* The running worker, kills and the world                                  *)
(***************************************************************************)

\* The main loop stores the metadata. Where the reserve thread took srd away
\* meanwhile, restore_srd may refuse the text (see module Srd). A failed
\* allocation returns with the lock held: the next turn of the loop waits for
\* ever.
StoreMetadata ==
    /\ pc = "running"
    /\ \/ disk' = Meta(key, account, upgraded) /\ UNCHANGED pc
       \/ disk' = Torn /\ UNCHANGED pc
       \/ fault /\ pc' = "hung" /\ UNCHANGED disk
    /\ UNCHANGED <<options, enclave, tries, answer, world, bounds>>

\* A kill inside the store leaves the pieces of two versions.
Kill ==
    /\ pc # "down" /\ Gone
    /\ \/ UNCHANGED disk
       \/ pc = "running" /\ disk' = Torn
    /\ UNCHANGED <<world, bounds>>

NodeUp ==
    /\ \/ node = "off" /\ node' = "young"
       \/ node = "young" /\ node' = "syncing"
       \/ node = "syncing" /\ node' = "ready"
    /\ UNCHANGED <<pc, options, enclave, tries, answer, disk, chain,
                   vouched, unposted, fault, bounds>>

NodeDown ==
    /\ node # "off" /\ outages < MaxOutages
    /\ node' = "off" /\ outages' = outages + 1
    /\ UNCHANGED <<pc, options, enclave, tries, answer, disk, chain,
                   vouched, unposted, fault, keys, starts>>

Fault ==
    /\ ~fault /\ fault' = TRUE
    /\ UNCHANGED <<pc, options, enclave, tries, answer, disk, chain,
                   vouched, unposted, node, bounds>>

Step ==
    \/ InitializeComponents \/ InitializeEnclave
    \/ ReadMetadata \/ RestoreSrd \/ RestoreKey \/ RestoreRest
    \/ CompareAccount
    \/ GenKey \/ Nonce \/ InitQuote \/ GetQuote \/ PostIas \/ VerifyIdentity
    \/ WaitOnline \/ WaitHeight \/ WaitSync \/ PostIdentity \/ SetSrdChange

Next == Start \/ Step \/ StoreMetadata \/ Kill \/ NodeUp \/ NodeDown \/ Fault

Spec == Init /\ [][Next]_vars

\* The start is one thread that the system schedules; the node of the chain
\* comes up when it is down, and goes on synchronising.
FairSpec == Spec /\ WF_vars(Step) /\ WF_vars(NodeUp)

(***************************************************************************)
(* Properties                                                               *)
(***************************************************************************)

TypeOK ==
    /\ pc \in {"down", "components", "enclave", "read", "restoreSrd",
               "restoreKey", "restoreRest", "compare", "genKey", "nonce",
               "initQuote", "quote", "ias", "verify", "online", "height",
               "sync", "post", "srdChange", "running", "hung"}
    /\ offline \in BOOLEAN /\ fault \in BOOLEAN /\ upgraded \in BOOLEAN
    /\ configured \in Accounts \cup {<<>>} /\ account \in Accounts \cup {<<>>}
    /\ key \in Keys \cup {NoKey}
    /\ tries \in Nat
    /\ answer \in [genuine : BOOLEAN, data : Keys \cup {NoKey}]
    /\ disk \in Stored \cup {NoMeta, Torn}
    /\ \A r \in chain : r.key \in Keys /\ r.account \in Accounts
    /\ vouched \subseteq Keys /\ unposted \subseteq Keys
    /\ node \in {"off", "young", "syncing", "ready"}
    /\ keys \in 0..(starts + 1) /\ starts \in 0..MaxStarts
    /\ outages \in 0..MaxOutages

Up == pc \in {"running", "hung"}

\* The key pair of an enclave never changes in its life, whatever part of a
\* restore failed before a new key was asked for (id_gen_key_pair).
OneKeyPerLife == [][key # NoKey /\ pc' # "down" => key' = key]_vars

\* A worker that works is known to the chain under the key and the account it
\* reports with, in whatever order launches with and without --offline, kills
\* and failures come between the making of the key, its registration and the
\* stores and restores of the metadata. The exception is a key whose own start
\* went on without an upload (process_run offline; entry_network, which
\* reports a success after a failed allocation): it stays unknown when a
\* later launch, online and without a failure, restores it.
RunningIsRegistered ==
    Up /\ key \notin unposted =>
        \E r \in chain : r.key = key /\ r.account = account

\* No identity reaches the chain with evidence for another key, also when an
\* earlier answer of IAS comes back (id_verify_and_upload_identity).
EvidenceIsForKey == \A r \in chain : r.evidence = r.key

=============================================================================
