------------------------------ MODULE Keystore ------------------------------
(***************************************************************************)
(* An agent's keystore: the encrypted secrets, the cache of decrypted ones, *)
(* the file, the shared passphrase cache with its timeout thread, and the   *)
(* conductor functions that create, load and use a keystore.                *)
(*                                                                         *)
(* A seed or a key is represented by where its bytes come from: a sequence  *)
(* that starts with the random seed and has one element for each            *)
(* derivation.  Ciphers are represented by the passphrase they were made    *)
(* with.                                                                    *)
(***************************************************************************)
EXTENDS Naturals, Sequences, FiniteSets

CONSTANTS Typed,       \* passphrases the person at the prompt may type
          Default,     \* holochain_common::DEFAULT_PASSPHRASE
          Extra,       \* names under which zomes keep their own secrets
          CacheTime,   \* PASSPHRASE_CACHE_DURATION_SECS, in ticks
          MaxCalls,    \* bound: calls of the keystore functions
          MaxRestarts  \* bound: restarts, and changes of the file by hand

VARIABLES store,    \* the Keystore in agent_keys, if it is loaded
          cache,    \* Keystore.cache: decrypted secrets by name
          file,     \* the keystore file
          address,  \* public_address of the agent in the configuration
          job,      \* the call under way: [todo, got, goal]
          pm,       \* PassphraseManager.passphrase_cache
          idle,     \* ticks since last_read
          timer,    \* the timeout thread: "watch", or "due" before it forgets
          signed,   \* the key of the last signature made as the agent
          calls,    \* calls made
          restarts  \* restarts made

vars == <<store, cache, file, address, job, pm, idle, timer, signed, calls, restarts>>

RootSeed == "root_seed"
SignKey == "primary_keybundle:sign_key"
EncKey == "primary_keybundle:enc_key"
Id == {RootSeed, SignKey, EncKey} \cup Extra

(* A buffer of zero bytes: a fresh SecBuf, and what libsodium leaves behind *)
(* when the cipher does not authenticate.                                   *)
Zero == <<"zero">>

(* SigningKeyPair::new_from_seed: the pair depends on the seed. *)
SigningPair(seed) == [kind |-> "signing", of |-> seed]

(* EncryptingKeyPair::new_from_seed(seed) calls                             *)
(* kx::seed_keypair(pub, priv, seed), whose parameters are (seed, pk, sk):   *)
(* the fresh public buffer serves as the seed, and the secret key is        *)
(* written over the seed it was called with.                                *)
EncryptingPair(seed) == [kind |-> "encrypting", of |-> Append(Zero, "kx public key")]
SeedAfterEncryptingPair(seed) == Append(Zero, "kx secret key")

(* utils::generate_derived_seed_buf; the index 0 is refused. *)
generate_derived_seed_buf(seed) == Append(seed, "derived")

(* The version byte of a blob: seeds have none. *)
FormatVersion(kind) == IF kind = "seed" THEN 0 ELSE 1

(* as_blob: the bytes and their version under a passphrase. *)
as_blob(secret, passphrase) == [secret |-> secret, passphrase |-> passphrase]

(* unblob, pw_dec and aead::dec, which does not look at the result of the   *)
(* decryption: a wrong passphrase yields a buffer of zeros, not an error.   *)
unblob(blob, passphrase) ==
  IF passphrase = blob.passphrase
  THEN [version |-> FormatVersion(blob.secret.kind), of |-> blob.secret.of]
  ELSE [version |-> 0, of |-> Zero]

(* from_blob of the three kinds: the secret, or no secret when the version  *)
(* byte is not the expected one.                                            *)
from_blob(blob, passphrase) ==
  IF unblob(blob, passphrase).version # FormatVersion(blob.secret.kind)
  THEN {}
  ELSE {[kind |-> blob.secret.kind, of |-> unblob(blob, passphrase).of]}

Listed == IF store = {} THEN {} ELSE {i \in Id : (CHOOSE s \in store : TRUE).secrets[i] # {}}
Check == (CHOOSE s \in store : TRUE).check
BlobOf(i) == CHOOSE b \in (CHOOSE s \in store : TRUE).secrets[i] : TRUE

NoSecrets == [i \in Id |-> {}]
NoJob == [todo |-> <<>>, got |-> {}, goal |-> "none"]
Task(op, src, dst) == [op |-> op, src |-> src, dst |-> dst]

(* PassphraseManager::get_passphrase: the cached passphrase or a typed one. *)
get_passphrase(p) ==
  /\ p \in (IF pm = {} THEN Typed ELSE pm)
  /\ pm' = {p}
  /\ idle' = 0

(* The passphrase decrypt() uses: the default one without asking when it is *)
(* the keystore's, else the manager's.  The check decrypts passphrase_check *)
(* and looks for PCHECK_HEADER.                                             *)
check_passphrase(check, p) == check = p

DecryptPassphrase(check, p) ==
  IF check_passphrase(check, Default)
  THEN p = Default /\ UNCHANGED <<pm, idle>>
  ELSE get_passphrase(p)

Init ==
  /\ store = {} /\ cache = NoSecrets /\ file = {} /\ address = {}
  /\ job = NoJob /\ pm = {} /\ idle = 0 /\ timer = "watch"
  /\ signed = {} /\ calls = 0 /\ restarts = 0

(* Keystore::check_dst_identifier: is the name taken? *)
check_dst_identifier(dst) == dst \in Listed

Idle == job = NoJob
Fail == job' = NoJob

Begin(todo, goal) ==
  /\ Idle /\ calls < MaxCalls
  /\ calls' = calls + 1
  /\ job' = [todo |-> todo, got |-> {}, goal |-> goal]

(* Keystore::new_standalone, for add_agent: a keystore with the passphrase  *)
(* of the moment, then a random root seed and the agent's keys from it.     *)
new_standalone ==
  /\ store = {} /\ address = {}
  /\ Begin(<<Task("random", RootSeed, RootSeed), Task("signing", RootSeed, SignKey),
             Task("encrypting", RootSeed, EncKey)>>, "add_agent")
  /\ \E p \in Typed : get_passphrase(p) /\ store' = {[check |-> p, secrets |-> NoSecrets]}
  /\ cache' = NoSecrets
  /\ UNCHANGED <<file, address, timer, signed, restarts>>

(* agent/keystore/add_random_seed, add_seed_from_seed, add_key_from_seed. *)
Request(op, src, dst) ==
  /\ store # {} /\ address # {}
  /\ Begin(<<Task(op, src, dst)>>, "zome")
  /\ UNCHANGED <<store, cache, file, address, pm, idle, timer, signed, restarts>>

(* The source secret of a task: check_identifiers, get and decrypt. *)
Fetch ==
  /\ job.todo # <<>> /\ job.got = {}
  /\ LET t == Head(job.todo) IN
     IF t.op # "sign" /\ check_dst_identifier(t.dst)
     THEN Fail /\ UNCHANGED <<cache, pm, idle>>
     ELSE IF t.op = "random"                         \* no source
     THEN job' = [job EXCEPT !.got = {[kind |-> "seed", of |-> <<t.dst>>]}]
          /\ UNCHANGED <<cache, pm, idle>>
     ELSE IF t.src \notin Listed
     THEN Fail /\ UNCHANGED <<cache, pm, idle>>
     ELSE IF cache[t.src] # {}
     THEN job' = [job EXCEPT !.got = cache[t.src]] /\ UNCHANGED <<cache, pm, idle>>
     ELSE \/ \E p \in Typed \cup {Default} :
               /\ DecryptPassphrase(Check, p)
               /\ LET secret == from_blob(BlobOf(t.src), p) IN
                  IF secret = {}
                  THEN Fail /\ UNCHANGED cache
                  ELSE /\ cache' = [cache EXCEPT ![t.src] = secret]
                       /\ job' = [job EXCEPT !.got = secret]
          \/ /\ pm = {} /\ ~check_passphrase(Check, Default)   \* the prompt fails
             /\ Fail /\ UNCHANGED <<cache, pm, idle>>
  /\ UNCHANGED <<store, file, address, timer, signed, calls, restarts>>

Got == CHOOSE s \in job.got : TRUE

Made(op, secret) ==
  CASE op = "random"     -> secret
    [] op = "derive"     -> [kind |-> "seed", of |-> generate_derived_seed_buf(secret.of)]
    [] op = "signing"    -> SigningPair(secret.of)
    [] op = "encrypting" -> EncryptingPair(secret.of)

(* The new secret goes to the cache and encrypt() puts it into the secrets. *)
(* encrypt() calls check_passphrase but only stops at an error, not at a    *)
(* passphrase that is not the keystore's.                                   *)
AddTo(dst, secret, src, op) ==
  \E p \in Typed :
    /\ get_passphrase(p)
    /\ store' = {[s EXCEPT !.secrets[dst] = {as_blob(secret, p)}] : s \in store}
    /\ cache' = [i \in Id |->
                   IF i = dst THEN {secret}
                   ELSE IF i = src /\ op = "encrypting"
                   THEN {[kind |-> "seed", of |-> SeedAfterEncryptingPair(s.of)] : s \in cache[i]}
                   ELSE cache[i]]

Add ==
  /\ job.todo # <<>> /\ job.got # {}
  /\ LET t == Head(job.todo) IN
     /\ t.op # "sign"
     /\ IF t.op # "random" /\ Got.kind # "seed"
        THEN Fail /\ UNCHANGED <<store, cache, pm, idle>>
        ELSE /\ AddTo(t.dst, Made(t.op, Got), t.src, t.op)
             /\ job' = [job EXCEPT !.todo = Tail(@), !.got = {}]
  /\ UNCHANGED <<file, address, timer, signed, calls, restarts>>

(* The prompt fails: the secret stays in the cache and the call ends. *)
PromptFails ==
  /\ job.todo # <<>> /\ job.got # {} /\ pm = {}
  /\ LET t == Head(job.todo) IN
     /\ t.op # "sign" /\ (t.op = "random" \/ Got.kind = "seed")
     /\ cache' = [cache EXCEPT ![t.dst] = {Made(t.op, Got)}]
  /\ Fail
  /\ store' = IF job.goal = "add_agent" THEN {} ELSE store
  /\ UNCHANGED <<file, address, pm, idle, timer, signed, calls, restarts>>

(* The call is complete; add_agent saves the keystore under the public      *)
(* address of its signing key and puts the agent into the configuration.    *)
Done ==
  /\ job.todo = <<>> /\ job.goal # "none"
  /\ IF job.goal = "add_agent"
     THEN file' = store /\ address' = {s.of : s \in cache[SignKey]}
     ELSE UNCHANGED <<file, address>>
  /\ job' = NoJob
  /\ UNCHANGED <<store, cache, pm, idle, timer, signed, calls, restarts>>

(* Keystore::sign with the agent's key. *)
SignAsAgent ==
  /\ store # {} /\ address # {}
  /\ Begin(<<Task("sign", SignKey, SignKey)>>, "zome")
  /\ UNCHANGED <<store, cache, file, address, pm, idle, timer, signed, restarts>>

Sign ==
  /\ job.todo # <<>> /\ job.got # {} /\ Head(job.todo).op = "sign"
  /\ IF Got.kind = "signing" THEN signed' = {Got.of} ELSE UNCHANGED signed
  /\ job' = NoJob
  /\ UNCHANGED <<store, cache, file, address, pm, idle, timer, calls, restarts>>

(* Conductor::get_keystore_for_agent: read the file, decrypt the agent's    *)
(* keybundle and compare its address with the configuration's; a keystore   *)
(* that fails is not kept.                                                  *)
KeepUnchecked(s, p) ==
  {k.of : k \in from_blob(CHOOSE b \in s.secrets[SignKey] : TRUE, p)} # {}

KeepKeystore(s, p) ==
  {k.of : k \in from_blob(CHOOSE b \in s.secrets[SignKey] : TRUE, p)} = address

get_keystore_for_agent ==
  /\ Idle /\ store = {} /\ address # {} /\ calls < MaxCalls
  /\ calls' = calls + 1
  /\ \E s \in file, p \in Typed \cup {Default} :
       /\ DecryptPassphrase(s.check, p)
       /\ LET sign == from_blob(CHOOSE b \in s.secrets[SignKey] : TRUE, p)
              enc  == from_blob(CHOOSE b \in s.secrets[EncKey] : TRUE, p) IN
          IF sign # {} /\ enc # {} /\ KeepKeystore(s, p)
          THEN store' = {s} /\ cache' = [NoSecrets EXCEPT ![SignKey] = sign, ![EncKey] = enc]
          ELSE UNCHANGED <<store, cache>>
  /\ UNCHANGED <<file, address, job, timer, signed, restarts>>

(* change_passphrase: a new passphrase_check; the secrets stay as they are. *)
change_passphrase(old, new) ==
  /\ Idle /\ store # {} /\ address # {} /\ calls < MaxCalls
  /\ check_passphrase(Check, old) /\ old # new
  /\ calls' = calls + 1
  /\ store' = {[s EXCEPT !.check = new] : s \in store}
  /\ UNCHANGED <<cache, file, address, job, pm, idle, timer, signed, restarts>>

(* The timeout thread looks once a second, and forgets under another lock.  *)
Watch ==
  /\ timer = "watch" /\ pm # {} /\ idle > CacheTime
  /\ timer' = "due"
  /\ UNCHANGED <<store, cache, file, address, job, pm, idle, signed, calls, restarts>>

forget_passphrase ==
  /\ timer = "due"
  /\ pm' = {} /\ timer' = "watch"
  /\ UNCHANGED <<store, cache, file, address, job, idle, signed, calls, restarts>>

Tick ==
  /\ pm # {} /\ idle <= CacheTime
  /\ idle' = idle + 1
  /\ UNCHANGED <<store, cache, file, address, job, pm, timer, signed, calls, restarts>>

(* The conductor stops, whatever it is doing, and starts again. *)
Restart ==
  /\ restarts < MaxRestarts
  /\ restarts' = restarts + 1
  /\ store' = {} /\ cache' = NoSecrets /\ job' = NoJob
  /\ pm' = {} /\ idle' = 0 /\ timer' = "watch" /\ signed' = {}
  /\ UNCHANGED <<file, address, calls>>

(* Another agent's keystore file is put in the place of this one. *)
ReplaceFile ==
  /\ file # {} /\ restarts < MaxRestarts
  /\ restarts' = restarts + 1
  /\ \E p \in Typed :
       file' = {[check |-> p,
                 secrets |-> [NoSecrets EXCEPT
                   ![RootSeed] = {as_blob([kind |-> "seed", of |-> <<"another">>], p)},
                   ![SignKey]  = {as_blob(SigningPair(<<"another">>), p)},
                   ![EncKey]   = {as_blob(EncryptingPair(<<"another">>), p)}]]}
  /\ UNCHANGED <<store, cache, address, job, pm, idle, timer, signed, calls>>

Next ==
  \/ new_standalone
  \/ \E d \in Extra : Request("random", d, d)
  \/ \E s \in Id, d \in Extra : \E op \in {"derive", "signing", "encrypting"} : Request(op, s, d)
  \/ Fetch \/ Add \/ PromptFails \/ Done
  \/ SignAsAgent \/ Sign
  \/ get_keystore_for_agent
  \/ \E old, new \in Typed : change_passphrase(old, new)
  \/ Watch \/ forget_passphrase \/ Tick
  \/ Restart \/ ReplaceFile

Spec == Init /\ [][Next]_vars

(* Time passes and the timeout thread is a loop that never ends while the   *)
(* manager lives.                                                           *)
FairSpec == Spec /\ WF_vars(Tick) /\ WF_vars(Watch) /\ WF_vars(forget_passphrase)

-----------------------------------------------------------------------------
(* A key pair that is in use is the one that was stored: a blob opened with *)
(* a passphrase it was not made with is never taken for a key (the version  *)
(* byte in from_blob).                                                      *)
KeysIntact ==
  \A i \in Listed : \A s \in cache[i] :
    BlobOf(i).secret.kind # "seed" => s = BlobOf(i).secret

(* What is signed as the agent is signed with the key of the address that   *)
(* the configuration has for it, whatever the keystore file holds and       *)
(* whichever passphrases were typed (get_keystore_for_agent, sign).         *)
AgentSigns == \A k \in signed : k \in address

(* While a keystore is loaded no call replaces or removes a secret it       *)
(* lists: check_dst_identifier comes before every insertion.                *)
SecretsKept ==
  [][(store # {} /\ store' # {}) =>
       \A i \in Listed : {s.secrets[i] : s \in store'} = {s.secrets[i] : s \in store}]_vars

(* A passphrase that nobody reads is forgotten: the cache of the manager    *)
(* does not keep it longer than it is in use (the timeout thread).          *)
Forgotten == []<>(pm = {} \/ idle <= CacheTime)

(* "Once a secret is requested, it gets decrypted and cached": the cached   *)
(* secret of a listed name is the secret stored under that name.            *)
CachedIsStored ==
  \A i \in Listed : \A s \in cache[i] : s = BlobOf(i).secret

(* "Keystore makes sure that all secrets are encrypted with the same        *)
(* passphrase", the one passphrase_check was made with.                     *)
OnePassphrase == \A i \in Listed : BlobOf(i).passphrase = Check
=============================================================================
