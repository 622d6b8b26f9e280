------------------------------ MODULE Enclave ------------------------------
(***************************************************************************)
(* Sealed execution and sealed secrets, one part per mode: the life cycle  *)
(* of an enclave with its channel (security/enclave/manager.py, "run"),    *)
(* the verification of attestation documents (attestation.py, "attest"),   *)
(* and envelope encryption with data keys that a key service wraps         *)
(* (security/kms, "kms"). A key is a number, a ciphertext the record of    *)
(* what was encrypted with which key.                                      *)
(***************************************************************************)
EXTENDS Integers, Sequences, FiniteSets

CONSTANTS
    EnCallers,          \* concurrent executions
    EnMaxStarts,        \* bound: starts of the enclave
    EnStrict,           \* strict_attestation
    EnKeyIds,           \* master keys
    EnMaxEnvelopes      \* bound: envelopes

ASSUME EnBoundAssumption == EnMaxStarts \in Nat /\ EnMaxEnvelopes \in Nat

VARIABLES
    enMode,             \* "off", "run", "attest" or "kms"
    enStatus,           \* "provisioning", "ready", "failed", "terminated"
    enChannel,          \* session key of the channel, 0 for None
    enStarts,           \* starts so far; a start makes the key of its number
    enVerified,         \* history: keys made in a start whose document was accepted
    enRun,              \* caller -> [at, key]: "idle", "inside", "returned", "raised"; key of its request
    enDoc,              \* document presented: what differs from the one that was signed, or is wrong with it
    enVerdict,          \* "none", "valid" or "refused"
    enProvider,         \* "local", "aws", "gcp" or "vault"
    enClient,           \* the client of the key service is available
    enKeys,             \* data keys made so far
    enEnv,              \* envelopes: [n, key_id, wrapped, by, dek, secret]
    enCache,            \* _dek_cache: <<wrapped key, data key>>
    enRead,             \* history: envelope number -> what decrypt_secret last gave
    enRotating,         \* [n, key_id, secret] of a rotation between its two halves, n = 0 for none
    enChanged           \* history: the client was there for some operations only

enRunVars == <<enStatus, enChannel, enStarts, enVerified, enRun>>
enAttestVars == <<enDoc, enVerdict>>
enKmsVars == <<enProvider, enClient, enKeys, enEnv, enCache, enRead, enRotating, enChanged>>
enVars == <<enMode, enRunVars, enAttestVars, enKmsVars>>

EnNoRotation == [n |-> 0, key_id |-> 0, secret |-> 0]
EnNobody == [at |-> "idle", key |-> 0]
EnInit ==
    /\ enMode = "off"
    /\ enStatus = "provisioning" /\ enChannel = 0 /\ enStarts = 0 /\ enVerified = {} /\ enRun = [c \in EnCallers |-> EnNobody]
    /\ enDoc = {} /\ enVerdict = "none"
    /\ enProvider = "local" /\ enClient = FALSE /\ enKeys = 0 /\ enEnv = {} /\ enCache = {} /\ enRead = <<>>
    /\ enRotating = EnNoRotation /\ enChanged = FALSE

---------------------------------------------------------------------------
(* The enclave. start makes keys and a document, verifies it and opens the channel, without an await in between. *)
EnOnlyRun == UNCHANGED <<enMode, enAttestVars, enKmsVars>>
EnIsReady == enStatus = "ready" /\ enChannel # 0

\* valid: the verifier accepts the document. Without strict_attestation it is not asked.
EnOpensUnasked(valid) == TRUE
EnOpens(valid) == valid \/ ~EnStrict
EnStarted(valid) ==
    /\ enStarts < EnMaxStarts /\ enStarts' = enStarts + 1
    /\ enStatus' = (IF EnOpens(valid) THEN "ready" ELSE "failed") /\ enChannel' = (IF EnOpens(valid) THEN enStarts' ELSE enChannel)
    /\ enVerified' = IF valid THEN enVerified \cup {enStarts'} ELSE enVerified
EnStart(valid) ==
    /\ enMode = "run"
    /\ IF EnIsReady THEN UNCHANGED <<enStatus, enChannel, enStarts, enVerified>> ELSE EnStarted(valid)
    /\ UNCHANGED enRun /\ EnOnlyRun

\* execute, up to the start of the child process: a request that was encrypted and decrypted by the same channel.
EnExecute(c, valid) ==
    /\ enMode = "run" /\ enRun[c].at \in {"idle", "returned", "raised"}
    /\ IF EnIsReady THEN UNCHANGED <<enStatus, enChannel, enStarts, enVerified>> ELSE EnStarted(valid)
    /\ enRun' = [enRun EXCEPT ![c] = [at |-> IF enStatus' = "ready" THEN "inside" ELSE "raised", key |-> enChannel']]
    /\ EnOnlyRun

\* The child ended, failed or was killed by the timeout: the response goes through the channel there is now.
EnReturns(c) ==
    /\ enMode = "run" /\ enRun[c].at = "inside" /\ enRun' = [enRun EXCEPT ![c].at = IF enChannel # 0 THEN "returned" ELSE "raised"]
    /\ UNCHANGED <<enStatus, enChannel, enStarts, enVerified>> /\ EnOnlyRun
EnClosesNot == enChannel
EnCloses == 0
EnStop ==
    /\ enMode = "run" /\ enChannel' = EnCloses /\ enStatus' = "terminated"
    /\ UNCHANGED <<enStarts, enVerified, enRun>> /\ EnOnlyRun
EnRunNext ==
    \/ EnStop
    \/ \E valid \in BOOLEAN : EnStart(valid) \/ (\E c \in EnCallers : EnExecute(c, valid))
    \/ \E c \in EnCallers : EnReturns(c)

---------------------------------------------------------------------------
(* AttestationVerifier.verify. The signature covers the canonical payload of the document. *)
EnFields == {"enclave_id", "nonce", "pcr0", "pcr1", "pcr2", "platform", "public_key_pem", "timestamp_utc", "user_data"}
EnFaults == {"other nonce", "old", "future", "unlisted pcr0", "no root key"}
EnPayloadPartly == EnFields \ {"user_data"}
EnPayload == EnFields
EnVerify(doc) ==
    /\ doc \cap {"other nonce", "old", "future", "unlisted pcr0"} = {}
    /\ "no root key" \in doc \/ doc \cap EnPayload = {}
EnAttest(doc) ==
    /\ enMode = "attest" /\ enVerdict = "none" /\ enDoc' = doc /\ enVerdict' = IF EnVerify(doc) THEN "valid" ELSE "refused"
    /\ UNCHANGED <<enMode, enRunVars, enKmsVars>>

---------------------------------------------------------------------------
(* Envelopes. *)
EnOnlyKms == UNCHANGED <<enMode, enRunVars, enAttestVars>>
EnRemote == enClient /\ enProvider \in {"aws", "gcp"}
EnBackend == IF EnRemote THEN "service" ELSE "master key"

\* generate_data_key: <<the key for the data, the key that is wrapped>>. The Vault provider wraps another one.
EnDataKey == IF enProvider = "vault" THEN <<enKeys + 1, enKeys + 2>> ELSE <<enKeys + 1, enKeys + 1>>
EnEnvelope(n, k, s) == [n |-> n, key_id |-> k, wrapped |-> EnDataKey[2], by |-> EnBackend, dek |-> EnDataKey[1], secret |-> s]
EnSeals(k, s) ==
    /\ Cardinality(enEnv) < EnMaxEnvelopes /\ enKeys' = EnDataKey[2]
    /\ enEnv' = enEnv \cup {EnEnvelope(Cardinality(enEnv) + 1, k, s)} /\ enRead' = Append(enRead, 0)
EnEncrypt(k) ==
    /\ enMode = "kms" /\ EnSeals(k, Cardinality(enEnv) + 1)
    /\ UNCHANGED <<enProvider, enClient, enCache, enRotating, enChanged>> /\ EnOnlyKms

\* decrypt_secret: the cached key or the unwrapped one; -1 when unwrapping or decrypting fails.
EnCacheKeyById(e) == e.key_id
EnCacheKey(e) == e.wrapped
EnCached(e) == {x \in enCache : x[1] = EnCacheKey(e)}
EnUnwraps(e) == e.by = EnBackend
EnFound(e) == IF EnCached(e) # {} THEN (CHOOSE x \in EnCached(e) : TRUE)[2] ELSE IF EnUnwraps(e) THEN e.wrapped ELSE -1
EnOpened(e) == IF EnFound(e) = e.dek THEN e.secret ELSE -1
EnRemembers(e) == enCache' = IF EnCached(e) = {} /\ EnUnwraps(e) THEN enCache \cup {<<EnCacheKey(e), e.wrapped>>} ELSE enCache
EnDecrypt(e) ==
    /\ enMode = "kms" /\ EnRemembers(e) /\ enRead' = [enRead EXCEPT ![e.n] = EnOpened(e)]
    /\ UNCHANGED <<enProvider, enClient, enKeys, enEnv, enRotating, enChanged>> /\ EnOnlyKms
EnExpires(x) ==
    /\ enMode = "kms" /\ enCache' = enCache \ {x}
    /\ UNCHANGED <<enProvider, enClient, enKeys, enEnv, enRead, enRotating, enChanged>> /\ EnOnlyKms

\* rotate_key: decrypt, then encrypt under the new key; other operations come in between.
EnRotate(e, k) ==
    /\ enMode = "kms" /\ enRotating.n = 0 /\ EnRemembers(e) /\ enRead' = [enRead EXCEPT ![e.n] = EnOpened(e)]
    /\ enRotating' = IF EnOpened(e) = -1 THEN enRotating ELSE [n |-> e.n, key_id |-> k, secret |-> EnOpened(e)]
    /\ UNCHANGED <<enProvider, enClient, enKeys, enEnv, enChanged>> /\ EnOnlyKms
EnRotated ==
    /\ enMode = "kms" /\ enRotating.n # 0 /\ EnSeals(enRotating.key_id, enRotating.secret) /\ enRotating' = EnNoRotation
    /\ UNCHANGED <<enProvider, enClient, enCache, enChanged>> /\ EnOnlyKms

\* A new process: no cache, and the client of the service may be missing.
EnRestart(client) ==
    /\ enMode = "kms" /\ enProvider = "aws" /\ enCache' = {} /\ enClient' = client /\ enChanged' = (enChanged \/ client # enClient)
    /\ enRotating' = EnNoRotation
    /\ UNCHANGED <<enProvider, enKeys, enEnv, enRead>> /\ EnOnlyKms
EnKmsNext ==
    \/ EnRotated \/ (\E b \in BOOLEAN : EnRestart(b)) \/ (\E x \in enCache : EnExpires(x)) \/ (\E k \in EnKeyIds : EnEncrypt(k))
    \/ \E e \in enEnv : EnDecrypt(e) \/ (\E k \in EnKeyIds \ {e.key_id} : EnRotate(e, k))

---------------------------------------------------------------------------
\* get_kms_provider chooses the provider for good.
EnChoose(m, provider, client) ==
    /\ enMode = "off" /\ enMode' = m
    /\ m # "kms" => provider = "local"
    /\ client => provider \in {"aws", "gcp"}
    /\ enProvider' = provider /\ enClient' = client
    /\ UNCHANGED <<enRunVars, enAttestVars, enKeys, enEnv, enCache, enRead, enRotating, enChanged>>
EnNext ==
    \/ \E m \in {"run", "attest", "kms"}, p \in {"local", "aws", "gcp", "vault"}, b \in BOOLEAN : EnChoose(m, p, b)
    \/ EnRunNext \/ EnKmsNext
    \/ enMode = "attest" /\ \E doc \in SUBSET (EnFields \cup EnFaults) : Cardinality(doc) <= 3 /\ EnAttest(doc)
EnSpec == EnInit /\ [][EnNext]_enVars

---------------------------------------------------------------------------
(* Properties. *)

(* With strict attestation no channel is opened, and so nothing is executed, by  *)
(* a start whose document the verifier refused; a later start begins anew.       *)
EnAttestedOnly ==
    EnStrict => (enChannel \in enVerified \cup {0} /\ \A c \in EnCallers : enRun[c].at = "inside" => enRun[c].key \in enVerified)

(* After stop no response leaves the enclave, also not that of an execution that *)
(* was under way, until a start has opened a new channel.                        *)
EnNoAnswerAfterStop == [][\A c \in EnCallers : enRun[c].at = "inside" /\ enRun'[c].at = "returned" => enStatus = "ready"]_enVars

(* A document in which any field was changed after it was signed is refused,     *)
(* whenever the root key of the platform is known; a replayed, an old and an     *)
(* unlisted one is refused in any case.                                          *)
EnTamperedRefused ==
    enVerdict = "valid" =>
        /\ enDoc \cap {"other nonce", "old", "future", "unlisted pcr0"} = {}
        /\ enDoc \cap EnFields # {} => "no root key" \in enDoc

(* A secret that was encrypted, or re-encrypted by a rotation, is what           *)
(* decrypt_secret gives for the envelope, from the cache or from the service, as *)
(* long as the same service is asked; the Vault provider is excepted.            *)
EnSecretsKept == enProvider # "vault" /\ ~enChanged => \A e \in enEnv : enRead[e.n] \in {0, e.secret}

(* The same for every provider: "Generate a plaintext 256-bit DEK and its        *)
(* encrypted envelope representation." (security/kms/provider.py).               *)
EnRoundTrip == ~enChanged => \A e \in enEnv : enRead[e.n] \in {0, e.secret}
=============================================================================
