------------------------------ MODULE Envelope ------------------------------
(***************************************************************************)
(* What client/js/crypto.js makes of messages, files and vaults, and what  *)
(* decodeEnvelope (client/js/app.js) shows of an envelope, as operators.   *)
(*                                                                         *)
(* The primitives are symbols: a ciphertext remembers its key, iv and      *)
(* body, a signature its maker and what it is over, and opening either     *)
(* with anything else fails.  A transcript is made of fields: that the     *)
(* bytes of one field do not run into the next is taken for granted.  A    *)
(* person stands for that person's key pairs, a seed for all random bytes  *)
(* of one call.                                                            *)
(***************************************************************************)
EXTENDS Naturals

Failure(why) == [ok |-> FALSE, why |-> why]
Success(value) == [ok |-> TRUE, value |-> value]

-----------------------------------------------------------------------------
(* The primitives.                                                         *)

\* AES-GCM
Sealed(key, iv, body) == [key |-> key, iv |-> iv, body |-> body]
Opens(key, iv, ct) == ct.key = key /\ ct.iv = iv

\* ML-DSA
Signed(by, over) == [by |-> by, over |-> over]
Verifies(by, over, sig) == sig = Signed(by, over)
Unsigned == "none yet"

\* SHA-256
Digest(bytes) == [digestOf |-> bytes]

\* ML-KEM, and the key derived from its secret: another person's secret key
\* gives another shared secret.
Secret(by, kemCt) == [holder |-> by, kemCt |-> kemCt]

-----------------------------------------------------------------------------
(* Wrapped keys and transcripts.                                           *)

\* wrapCekForParties
WrapCek(cek, recipients) ==
    [r \in recipients |->
        LET kemCt == [to |-> r, seed |-> cek]
        IN  [kem_ct |-> kemCt, iv |-> <<cek, r>>,
             wrapped |-> Sealed(Secret(r, kemCt), <<cek, r>>, cek)]]

\* unwrapCek
Unwraps(entry, me) == Opens(Secret(me, entry.kem_ct), entry.iv, entry.wrapped)

\* Mutant of Transcript: the wrapped keys are left out.
MutantTranscriptNoKeys(fields, keys) == fields

\* buildTranscript: in the order of the usernames, so that the keys themselves
\* determine it, and not the order in which they were listed
Transcript(fields, keys) ==
    <<fields, [u \in DOMAIN keys |-> <<keys[u].kem_ct, keys[u].iv, keys[u].wrapped>>]>>

-----------------------------------------------------------------------------
(* Messages.                                                               *)

MessageTranscript(p, context) ==
    Transcript(<<"msg", context, p.iv, p.ciphertext>>, p.keys)

EncryptMessage(seed, text, recipients, sender, context) ==
    LET p == [iv |-> <<seed, "iv">>,
              ciphertext |-> Sealed(seed, <<seed, "iv">>, text),
              keys |-> WrapCek(seed, recipients), signature |-> Unsigned]
    IN  [p EXCEPT !.signature = Signed(sender, MessageTranscript(p, context))]

\* What follows the signature, for messages and files alike
OpenFor(me, p, iv, ct) ==
    IF me \notin DOMAIN p.keys THEN Failure("not addressed to you")
    ELSE IF ~Unwraps(p.keys[me], me) THEN Failure("does not open")
    ELSE IF ~Opens(p.keys[me].wrapped.body, iv, ct) THEN Failure("does not open")
    ELSE Success(ct.body)

DecryptMessage(p, me, sender, context) ==
    IF ~Verifies(sender, MessageTranscript(p, context), p.signature)
    THEN Failure("not authentic")
    ELSE OpenFor(me, p, p.iv, p.ciphertext)

-----------------------------------------------------------------------------
(* Files: the ciphertext travels apart from the payload.                   *)

\* fileV2Transcript
FileTranscript(p, context) ==
    Transcript(<<"lattix-file-v2", context, p.iv, p.meta_iv, p.ct_sha256, p.meta_ct>>, p.keys)

\* The signature of the first format: metadata and keys only
LegacyTranscript(p, context) == Transcript(<<context, p.meta, p.iv>>, p.keys)

IsFileV2(p) == p.v = 2 /\ "meta_ct" \in DOMAIN p

EncryptFile(seed, bytes, meta, recipients, sender, context) ==
    LET ct == Sealed(seed, <<seed, "iv">>, bytes)
        p  == [v |-> 2, iv |-> <<seed, "iv">>, meta_iv |-> <<seed, "meta">>,
               meta_ct |-> Sealed(seed, <<seed, "meta">>, meta),
               ct_sha256 |-> Digest(ct), keys |-> WrapCek(seed, recipients),
               signature |-> Unsigned]
    IN  [cipher |-> ct,
         payload |-> [p EXCEPT !.signature = Signed(sender, FileTranscript(p, context))]]

VerifyFilePayload(p, sender, context) ==
    Verifies(sender, IF IsFileV2(p) THEN FileTranscript(p, context)
                     ELSE LegacyTranscript(p, context), p.signature)

\* openFilePayload: the metadata, before anything is downloaded
OpenFilePayload(p, me, sender, context) ==
    IF ~IsFileV2(p)
    THEN Success([meta |-> p.meta, verified |-> VerifyFilePayload(p, sender, context)])
    ELSE IF ~VerifyFilePayload(p, sender, context) THEN Failure("not authentic")
    ELSE LET meta == OpenFor(me, p, p.meta_iv, p.meta_ct)
         IN  IF meta.ok THEN Success([meta |-> meta.value, verified |-> TRUE]) ELSE meta

DecryptFile(cipher, p, me, sender, context) ==
    IF ~VerifyFilePayload(p, sender, context) THEN Failure("not authentic")
    ELSE IF IsFileV2(p) /\ p.ct_sha256 # Digest(cipher) THEN Failure("not what was signed")
    ELSE OpenFor(me, p, p.iv, cipher)

-----------------------------------------------------------------------------
(* decodeEnvelope: the row shown for an envelope; alert says that the      *)
(* sender's key is in question.                                            *)

ErrorRow == [kind |-> "error", verified |-> FALSE]

Row(env, me, alert, context) ==
    LET opened == IF env.kind = "message" THEN DecryptMessage(env.payload, me, env.sender, context)
                  ELSE OpenFilePayload(env.payload, me, env.sender, context)
    IN  IF ~opened.ok THEN ErrorRow
        ELSE [kind |-> env.kind, content |-> opened.value,
              verified |-> ~alert /\ (env.kind = "message" \/ opened.value.verified)]

-----------------------------------------------------------------------------
(* Vaults and backups: iter is 0 when the file does not say.               *)

VaultIterations  == 600000
LegacyIterations == 250000

WorkAllowed == {n \in Nat : 100000 <= n /\ n <= 10000000}
Supported(iter) == iter = 0 \/ iter \in WorkAllowed
IterationsOf(sealed) == IF sealed.iter = 0 THEN LegacyIterations ELSE sealed.iter

\* Mutant of VaultNeedsUpgrade: a vault that does not say is taken for new.
MutantVaultNeedsUpgradeUnsaid(vault) == vault.iter # 0 /\ Supported(vault.iter) /\ vault.iter < VaultIterations

VaultNeedsUpgrade(vault) ==
    Supported(vault.iter) /\ IterationsOf(vault) < VaultIterations

\* sealVault and sealBackup
SealVault(seed, identity, password) ==
    [iter |-> VaultIterations, salt |-> seed, iv |-> seed,
     ciphertext |-> Sealed(<<password, seed, VaultIterations>>, seed, identity)]

\* openVault and openBackup
OpenVault(vault, password) ==
    IF ~Supported(vault.iter) THEN Failure("unsupported")
    ELSE IF ~Opens(<<password, vault.salt, IterationsOf(vault)>>, vault.iv, vault.ciphertext)
    THEN Failure("wrong password or corrupted")
    ELSE Success(vault.ciphertext.body)
=============================================================================
