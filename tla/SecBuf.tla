------------------------------- MODULE SecBuf -------------------------------
(***************************************************************************)
(* The secure buffers: their protection states, the lockers that open and   *)
(* close them, and the functions of the sodium and dpki crates that work on  *)
(* them, each as the sequence of lock, copy and unlock steps it takes.       *)
(*                                                                         *)
(* The content of a buffer is a set of segments: where they start, how many  *)
(* bytes they have and what they hold.                                       *)
(***************************************************************************)
EXTENDS Integers, Sequences, SequencesExt

CONSTANT MaxOps   \* bound: operations performed

VARIABLES mem,     \* the buffers
          steps,   \* what is left of the operation under way
          op,      \* the operation under way, or the last one
          result,  \* "ok", "err" or "panic"
          stored,  \* the KeyBlob made last: its type, size and content
          count

vars == <<mem, steps, op, result, stored, count>>

(* sign::PUBLICKEYBYTES, kx::PUBLICKEYBYTES, sign::SECRETKEYBYTES,           *)
(* kx::SECRETKEYBYTES, and the other sizes libsodium fixes.                  *)
Bytes == [signpub |-> 32, encpub |-> 32, signpriv |-> 64, encpriv |-> 32, seed |-> 32,
          signature |-> 64, message |-> 5, pass |-> 11, key |-> 32, salt |-> 16, nonce |-> 24,
          context |-> 8, derived |-> 32, rx |-> 32, tx |-> 32, hash |-> 32,
          newsignpub |-> 32, newencpub |-> 32, newsignpriv |-> 64, newencpriv |-> 32,
          data |-> 0, cipher |-> 0, plain |-> 0, copy |-> 0]

Buf == DOMAIN Bytes
ABYTES == 16

Aligned(n) == ((n + 8 - 1) \div 8) * 8
SIGNING_KEY_BLOB_SIZE_ALIGNED == Aligned(1 + Bytes["signpub"] + Bytes["signpriv"])
ENCRYPTING_KEY_BLOB_SIZE_ALIGNED == Aligned(1 + Bytes["encpub"] + Bytes["encpriv"])
KEYBUNDLE_BLOB_SIZE_ALIGNED ==
  Aligned(1 + Bytes["signpub"] + Bytes["encpub"] + Bytes["signpriv"] + Bytes["encpriv"])

blob_size == [Seed |-> Bytes["seed"], SigningKey |-> SIGNING_KEY_BLOB_SIZE_ALIGNED,
              EncryptingKey |-> ENCRYPTING_KEY_BLOB_SIZE_ALIGNED,
              KeyBundle |-> KEYBUNDLE_BLOB_SIZE_ALIGNED]

Segment(off, len, what) == [off |-> off, len |-> len, what |-> what]

-----------------------------------------------------------------------------
(* Steps. *)
Step(do, b, off, len, from, foff, what) ==
  [do |-> do, b |-> b, off |-> off, len |-> len, from |-> from, foff |-> foff, what |-> what]

R(b) == Step("read_lock", b, 0, 0, b, 0, "")
W(b) == Step("write_lock", b, 0, 0, b, 0, "")
Drop(b) == Step("drop", b, 0, 0, b, 0, "")
Put(b, off, len, what) == Step("put", b, off, len, b, 0, what)
Copy(from, foff, len, b, off) == Step("copy", b, off, len, from, foff, "")
Fits(b, off, len) == Step("fits", b, off, len, b, 0, "")
Version(b, what) == Step("version", b, 0, 1, b, 0, what)
BlobType(kind) == Step("blob_type", "data", 0, 0, "data", 0, kind)
Save(kind) == Step("save", "cipher", 0, 0, "cipher", 0, kind)
MayFail == Step("may_fail", "key", 0, 0, "key", 0, "")

(* SecBuf::with_secure panics unless the size is a multiple of 8. *)
with_secure(b, n) == <<Step("with_secure", b, 0, n, b, 0, "")>>
with_insecure(b, n) == <<Step("with_insecure", b, 0, n, b, 0, "")>>

(* Lockers are dropped at the end of their scope, the last one first. *)
Scope(locks, body) == locks \o body \o Reverse([i \in DOMAIN locks |-> Drop(locks[i].b)])

(* SecBuf::write, of bytes that are not in a buffer or of a slice of one. *)
write(b, off, len, what) == <<Fits(b, off, len)>> \o Scope(<<W(b)>>, <<Put(b, off, len, what)>>)
WriteSlice(b, off, from, foff, len) ==
  <<Fits(b, off, len)>> \o Scope(<<W(b)>>, <<Copy(from, foff, len, b, off)>>)
randomize(b) == Scope(<<W(b)>>, <<Put(b, 0, Bytes[b], "random")>>)
from_array(b, what) == write(b, 0, Bytes[b], what)
compare(a, b) == Scope(<<W(a), W(b)>>, <<Copy(a, 0, 0, b, 0)>>)

(* Clone: the protection is lifted behind the back of the recorded state. *)
clone(b, out, n) ==
  with_secure(out, n) \o <<Step("readable", b, 0, 0, b, 0, "")>>
    \o Scope(<<W(out)>>, <<Copy(b, 0, n, out, 0)>>) \o <<Step("noaccess", b, 0, 0, b, 0, "")>>

-----------------------------------------------------------------------------
(* The functions of the sodium crate. *)
Hash(b) == Scope(<<R(b), W("hash")>>, <<Copy(b, 0, 0, "hash", 0), Put("hash", 0, 32, "hash")>>)

pwhash ==
  Scope(<<R("salt"), R("pass"), W("key")>>, <<Put("key", 0, Bytes["key"], "hash"), MayFail>>)

enc(message, n) ==
  Scope(<<W("cipher"), R(message), R("nonce"), R("key")>>,
        <<Copy(message, 0, n, "cipher", 0), Put("cipher", n, ABYTES, "tag")>>)

(* The decryption writes what the cipher holds, whatever the size of the    *)
(* buffer it was given.                                                      *)
dec(n) == Scope(<<W("plain"), R("cipher"), R("nonce"), R("key")>>,
                <<Step("open", "plain", 0, n, "cipher", 0, "")>>)

(* kdf::derive: the lengths are read in a scope of their own. *)
DeriveLocked ==
  Scope(<<R("derived"), R("context")>>,
        <<Fits("derived", 0, 16)>>
          \o Scope(<<W("derived"), R("seed"), R("context")>>,
                   <<Put("derived", 0, Bytes["derived"], "derived")>>))

derive ==
  Scope(<<R("derived"), R("context")>>, <<Fits("derived", 0, 16), Fits("context", 0, 8)>>)
    \o Scope(<<W("derived"), R("seed"), R("context")>>,
             <<Put("derived", 0, Bytes["derived"], "derived")>>)

sign_seed_keypair(public, secret, seed) ==
  Scope(<<R(seed), W(secret), W(public)>>,
        <<Put(secret, 0, Bytes[secret], secret), Put(public, 0, Bytes[public], public)>>)

sign == Scope(<<R("message"), R("signpriv"), W("signature")>>,
              <<Put("signature", 0, Bytes["signature"], "signature")>>)

verify == Scope(<<R("signature"), R("message"), R("signpub")>>, <<>>)

kx_seed_keypair(seed, pk, sk) ==
  Scope(<<R(seed), W(pk), W(sk)>>,
        <<Put(pk, 0, Bytes[pk], "kx public"), Put(sk, 0, Bytes[sk], "kx secret")>>)

client_session ==
  Scope(<<W("rx"), W("tx"), R("encpriv"), R("encpub"), R("newencpub")>>,
        <<Put("rx", 0, 32, "session"), Put("tx", 0, 32, "session")>>)

server_session ==
  Scope(<<W("rx"), W("tx"), R("newencpub"), R("encpriv"), R("encpub")>>,
        <<Put("rx", 0, 32, "session"), Put("tx", 0, 32, "session")>>)

-----------------------------------------------------------------------------
(* The functions of the dpki crate. *)
SigningNewFromSeed(seed) ==
  with_insecure("signpub", 32) \o with_secure("signpriv", 64)
    \o sign_seed_keypair("signpub", "signpriv", seed) \o Scope(<<R("signpub")>>, <<>>)

(* kx::seed_keypair takes the seed first; it gets it last. *)
EncryptingNewFromSeed(seed) ==
  with_insecure("encpub", 32) \o with_secure("encpriv", 32)
    \o kx_seed_keypair("encpub", "encpriv", seed) \o Scope(<<R("encpub")>>, <<>>)

(* generate_derived_seed_buf, for RootSeed::generate_device_seed too; the    *)
(* context is a fresh buffer.                                                *)
generate_derived_seed_buf ==
  with_secure("derived", 32) \o with_insecure("context", 8) \o write("context", 0, 8, "context")
    \o derive

(* DeviceSeed::generate_device_pin_seed: the seed is the salt, the pin the   *)
(* password.                                                                 *)
generate_device_pin_seed ==
  with_secure("hash", 32)
    \o Scope(<<R("seed"), R("pass"), W("hash")>>, <<Put("hash", 0, 32, "hash"), MayFail>>)

(* DevicePinSeed::generate_dna_key: a bundle from the derived seed. *)
generate_dna_key ==
  generate_derived_seed_buf \o SigningNewFromSeed("derived") \o EncryptingNewFromSeed("derived")

new_with_mnemonic == with_secure("derived", 32) \o from_array("derived", "seed")
get_mnemonic == Scope(<<R("seed")>>, <<>>)

(* utils::verify: the signature and the key arrive as strings; a key of      *)
(* another length is refused by from_array.                                  *)
verify_bufs ==
  with_insecure("signature", 64) \o write("signature", 0, 64, "signature")
    \o with_insecure("signpub", 32) \o from_array("signpub", "signpub") \o verify

pw_enc(data, n) ==
  with_secure("key", 32) \o with_insecure("salt", 16) \o randomize("salt")
    \o with_insecure("nonce", 24) \o randomize("nonce") \o with_insecure("cipher", n + ABYTES)
    \o pwhash \o enc(data, n)
    \o Scope(<<R("salt")>>, <<>>) \o Scope(<<R("nonce")>>, <<>>) \o Scope(<<R("cipher")>>, <<>>)

pw_dec(n) ==
  with_secure("key", 32) \o with_insecure("salt", 16) \o from_array("salt", "random")
    \o with_insecure("nonce", 24) \o from_array("nonce", "random")
    \o <<Step("load", "cipher", 0, 0, "cipher", 0, "")>>
    \o pwhash \o dec(n)

(* Keystore::make_passphrase_check and check_passphrase: 8 bytes of header   *)
(* and 32 of noise; PassphraseManager::get_passphrase hands out copies.      *)
PCHECK_SIZE == 40

make_passphrase_check ==
  with_secure("data", PCHECK_SIZE) \o Scope(<<W("data")>>, <<Put("data", 0, PCHECK_SIZE, "random")>>)
    \o write("data", 0, 8, "header") \o pw_enc("data", PCHECK_SIZE) \o <<Save("Check")>>

check_passphrase ==
  <<BlobType("Check")>> \o with_secure("plain", PCHECK_SIZE) \o pw_dec(PCHECK_SIZE)
    \o with_insecure("copy", 8)
    \o Scope(<<R("plain")>>, WriteSlice("copy", 0, "plain", 0, 8) \o with_secure("data", 8)
                \o write("data", 0, 8, "header") \o compare("copy", "data"))

get_passphrase ==
  with_insecure("copy", 11) \o Scope(<<R("pass")>>, WriteSlice("copy", 0, "pass", 0, 11))

(* finalize_blobbing and unblob: the size, the type, and the encryption. *)
finalize_blobbing(data, kind) == pw_enc(data, blob_size[kind]) \o <<Save(kind)>>

UnblobAnyType(kind) == with_secure("plain", blob_size[kind]) \o pw_dec(blob_size[kind])
unblob(kind) ==
  <<BlobType(kind)>> \o with_secure("plain", blob_size[kind]) \o pw_dec(blob_size[kind])

SeedAsBlob == finalize_blobbing("seed", "Seed")
SeedFromBlob == unblob("Seed")

SigningAsBlob ==
  with_secure("data", SIGNING_KEY_BLOB_SIZE_ALIGNED)
    \o write("data", 0, 1, "v1") \o write("data", 1, 32, "signpub")
    \o Scope(<<R("signpriv")>>, WriteSlice("data", 33, "signpriv", 0, 64))
    \o finalize_blobbing("data", "SigningKey")

SigningFromBlob ==
  unblob("SigningKey")
    \o with_insecure("newsignpub", 32) \o with_secure("newsignpriv", 64)
    \o Scope(<<R("plain")>>, <<Version("plain", "v1")>>
               \o WriteSlice("newsignpub", 0, "plain", 1, 32)
               \o WriteSlice("newsignpriv", 0, "plain", 33, 64))

EncryptingAsBlob ==
  with_secure("data", ENCRYPTING_KEY_BLOB_SIZE_ALIGNED)
    \o write("data", 0, 1, "v1") \o write("data", 1, 32, "encpub")
    \o Scope(<<R("encpriv")>>, WriteSlice("data", 33, "encpriv", 0, 32))
    \o finalize_blobbing("data", "EncryptingKey")

EncryptingFromBlob ==
  unblob("EncryptingKey")
    \o with_insecure("newencpub", 32) \o with_secure("newencpriv", 32)
    \o Scope(<<R("plain")>>, <<Version("plain", "v1")>>
               \o WriteSlice("newencpub", 0, "plain", 1, 32)
               \o WriteSlice("newencpriv", 0, "plain", 33, 32))

BundleAsBlob ==
  with_secure("data", KEYBUNDLE_BLOB_SIZE_ALIGNED)
    \o write("data", 0, 1, "v2") \o write("data", 1, 32, "signpub")
    \o write("data", 33, 32, "encpub")
    \o Scope(<<R("signpriv")>>, WriteSlice("data", 65, "signpriv", 0, 64))
    \o Scope(<<R("encpriv")>>, WriteSlice("data", 129, "encpriv", 0, 32))
    \o finalize_blobbing("data", "KeyBundle")

BundleFromSlices(signpriv, encpriv) ==
  unblob("KeyBundle")
    \o with_insecure("newsignpub", 32) \o with_insecure("newencpub", 32)
    \o with_secure("newsignpriv", 64) \o with_secure("newencpriv", 32)
    \o Scope(<<R("plain")>>, <<Version("plain", "v2")>>
               \o WriteSlice("newsignpub", 0, "plain", 1, 32)
               \o WriteSlice("newencpub", 0, "plain", 33, 32)
               \o WriteSlice("newsignpriv", 0, "plain", signpriv, 64)
               \o WriteSlice("newencpriv", 0, "plain", encpriv, 32))

BundleFromBlob == BundleFromSlices(65, 129)

NewFromSelf == clone("signpriv", "copy", 64)

(* Every function by name. *)
Script ==
  [hash |-> Hash("message"), derive |-> derive, sign |-> sign, verify |-> verify,
   compare |-> compare("signpub", "newsignpub"),
   client_session |-> client_session, server_session |-> server_session,
   signing_new_from_seed |-> SigningNewFromSeed("seed"),
   encrypting_new_from_seed |-> EncryptingNewFromSeed("seed"),
   generate_device_seed |-> generate_derived_seed_buf,
   generate_device_pin_seed |-> generate_device_pin_seed, generate_dna_key |-> generate_dna_key,
   new_with_mnemonic |-> new_with_mnemonic, get_mnemonic |-> get_mnemonic,
   verify_bufs |-> verify_bufs, make_passphrase_check |-> make_passphrase_check,
   check_passphrase |-> check_passphrase, get_passphrase |-> get_passphrase,
   new_from_self |-> NewFromSelf,
   seed_as_blob |-> SeedAsBlob, seed_from_blob |-> SeedFromBlob,
   signing_as_blob |-> SigningAsBlob, signing_from_blob |-> SigningFromBlob,
   encrypting_as_blob |-> EncryptingAsBlob, encrypting_from_blob |-> EncryptingFromBlob,
   bundle_as_blob |-> BundleAsBlob, bundle_from_blob |-> BundleFromBlob]

-----------------------------------------------------------------------------
(* What a step does. *)
Closed(n, data) == [size |-> n, p |-> "NoAccess", real |-> "NoAccess", data |-> data]

Fresh == [b \in Buf |-> Closed(Bytes[b], {Segment(0, Bytes[b], b)})]

(* The segments of a slice, moved to another offset. *)
Slice(data, foff, len, off) ==
  {Segment(s.off - foff + off, s.len, s.what) :
     s \in {t \in data : t.off >= foff /\ t.off + t.len <= foff + len}}

Overwrite(data, off, len, new) ==
  {s \in data : s.off + s.len <= off \/ s.off >= off + len} \cup new

Init ==
  /\ mem = Fresh /\ steps = <<>> /\ op = "none" /\ result = "ok"
  /\ stored = [kind |-> "none", size |-> 0, data |-> {}] /\ count = 0

Idle == steps = <<>> /\ count < MaxOps /\ result # "panic"

Call(f) ==
  /\ steps' = Script[f] /\ op' = f /\ result' = "ok" /\ count' = count + 1
  /\ UNCHANGED <<mem, stored>>

Continue(m) == mem' = m /\ steps' = Tail(steps) /\ UNCHANGED <<op, result, stored, count>>

(* An early return, or the unwinding of a panic: every locker is dropped. *)
Return(r) ==
  /\ mem' = [b \in Buf |-> [mem[b] EXCEPT !.p = "NoAccess", !.real = "NoAccess"]]
  /\ steps' = <<>> /\ result' = r
  /\ UNCHANGED <<op, stored, count>>

(* readable() and writable() panic when the buffer is already open. *)
Lock(s, p) ==
  IF mem[s.b].p # "NoAccess" THEN Return("panic")
  ELSE Continue([mem EXCEPT ![s.b].p = p, ![s.b].real = p])

(* Deref and DerefMut panic unless the buffer is open that way. *)
CopyStep(s) ==
  IF mem[s.b].p # "ReadWrite" \/ mem[s.from].real = "NoAccess"
       \/ s.foff + s.len > mem[s.from].size \/ s.off + s.len > mem[s.b].size
  THEN Return("panic")
  ELSE Continue([mem EXCEPT ![s.b].data =
         Overwrite(@, s.off, s.len, Slice(mem[s.from].data, s.foff, s.len, s.off))])

Do(s) ==
  CASE s.do = "read_lock"  -> Lock(s, "ReadOnly")
    [] s.do = "write_lock" -> Lock(s, "ReadWrite")
    [] s.do \in {"drop", "noaccess"} ->
         Continue([mem EXCEPT ![s.b].real = "NoAccess",
                              ![s.b].p = IF s.do = "drop" THEN "NoAccess" ELSE @])
    [] s.do = "readable"  -> Continue([mem EXCEPT ![s.b].real = "ReadOnly"])
    [] s.do = "with_insecure" -> Continue([mem EXCEPT ![s.b] = Closed(s.len, {})])
    [] s.do = "with_secure" ->
         IF s.len % 8 # 0 THEN Return("panic")
         ELSE Continue([mem EXCEPT ![s.b] = Closed(s.len, {})])
    [] s.do = "fits" ->
         IF s.off + s.len > mem[s.b].size THEN Return("err") ELSE Continue(mem)
    [] s.do = "put" ->
         IF mem[s.b].p # "ReadWrite" \/ s.off + s.len > mem[s.b].size THEN Return("panic")
         ELSE Continue([mem EXCEPT ![s.b].data =
                Overwrite(@, s.off, s.len, {Segment(s.off, s.len, s.what)})])
    [] s.do = "copy" -> CopyStep(s)
    [] s.do = "open" ->
         IF mem[s.from].size - ABYTES # s.len THEN Return("panic")
         ELSE CopyStep([s EXCEPT !.do = "copy"])
    [] s.do = "version" ->
         IF Segment(0, 1, s.what) \in mem[s.b].data THEN Continue(mem) ELSE Return("err")
    [] s.do = "blob_type" ->
         IF stored.kind = s.what THEN Continue(mem) ELSE Return("err")
    [] s.do = "load" -> Continue([mem EXCEPT ![s.b] = Closed(stored.size, stored.data)])
    [] s.do = "save" ->
         /\ stored' = [kind |-> s.what, size |-> mem[s.b].size, data |-> mem[s.b].data]
         /\ steps' = Tail(steps)
         /\ UNCHANGED <<mem, op, result, count>>
    [] s.do = "may_fail" -> Continue(mem) \/ Return("err")

Run == steps # <<>> /\ Do(Head(steps))

Next == (Idle /\ \E f \in DOMAIN Script : Call(f)) \/ Run

Spec == Init /\ [][Next]_vars

-----------------------------------------------------------------------------
(* No sequence of these functions, whichever of them fail, comes to the     *)
(* panics of SecBuf: a buffer locked twice, read while it is closed, written *)
(* while it is not writable, a secure size that is not a multiple of 8, or a *)
(* cipher opened into a buffer of another size.                              *)
NeverPanics == result # "panic"

(* Between two functions every buffer is closed, in the recorded state and   *)
(* in the memory protection, also after an early return.                     *)
ClosedAgain == steps = <<>> => \A b \in Buf : mem[b].p = "NoAccess" /\ mem[b].real = "NoAccess"

Fields(kind) ==
  CASE kind = "SigningKey"    -> {"signpub", "signpriv"}
    [] kind = "EncryptingKey" -> {"encpub", "encpriv"}
    [] OTHER                  -> {"signpub", "signpriv", "encpub", "encpriv"}

NewOf == [signpub |-> "newsignpub", signpriv |-> "newsignpriv",
          encpub |-> "newencpub", encpriv |-> "newencpriv"]

ReadsBack(kind) ==
  \A f \in Fields(kind) :
    \A s \in Slice(stored.data, 0, stored.size, 0) :
      (s.what = f /\ s.len = Bytes[f]) => Segment(0, Bytes[f], f) \in mem[NewOf[f]].data

(* What from_blob reads is what as_blob wrote: the slices and the offsets of *)
(* the three formats agree, for every field.                                 *)
BlobsReadBack ==
  (steps = <<>> /\ result = "ok") =>
    /\ op = "signing_from_blob" => ReadsBack("SigningKey")
    /\ op = "encrypting_from_blob" => ReadsBack("EncryptingKey")
    /\ op = "bundle_from_blob" => ReadsBack("KeyBundle")
=============================================================================
