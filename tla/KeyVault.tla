------------------------------ MODULE KeyVault ------------------------------
(***************************************************************************)
(* The Azure Key Vault crypto provider (package keyvault, in              *)
(* src/bindings/azure/storagequeues/storagequeues.go from l.273).  Every   *)
(* method parses its key argument with newKeyID.  A key whose version is  *)
(* pinned is Cacheable: its public key is kept in a PubKeyCache keyed by  *)
(* the key string, and asymmetric encryption, key wrapping and            *)
(* verification with it run locally; everything else is a request to the  *)
(* vault.  The vault holds versions 1..latest of each key name; a rotation *)
(* adds a version, and a version's validity period can end.  A call is one *)
(* step: the cache fill and the vault request it makes are atomic.         *)
(***************************************************************************)
EXTENDS Naturals, Sequences

CONSTANTS
    KeyStrings,   \* key arguments callers pass, as sequences of characters
    MaxVersion,   \* bound on the versions of a key (rotations)
    NULL

KR == INSTANCE KeyReferences WITH key <- <<>>, defaultNs <- <<>>,
        Chars <- {"/"}, MaxLen <- 0, Namespaces <- {<<>>}

Names == {KR!NewKeyID(s).Name : s \in KeyStrings}
Versions == 1..MaxVersion
\* The version string of version n
VersionString(n) == <<<<"1">>, <<"2">>, <<"3">>>>[n]

\* What GetJWKEncryptionAlgorithm / GetJWKSignatureAlgorithm and
\* IsAlgorithmAsymmetric make of the algorithm argument
EncAlgs == {"asymmetric", "symmetric", "invalid"}
SigAlgs == {"valid", "invalid"}
\* plaintextKey.KeyType() for WrapKey
KeyTypes == {"oct", "rsa"}

VARIABLES
    latest,    \* per key name: the newest version in the vault
    expired,   \* per key name: the versions past their validity period
    cache,     \* k.keyCache: per key string, the version it holds or NULL
    returned   \* the result of the call made by the last step, NULL if none

vars == <<latest, expired, cache, returned>>

Result(op, s, res, ver, at) == [op |-> op, key |-> s, res |-> res, ver |-> ver, at |-> at]

\* keyvaultCrypto.Init: NewPubKeyCache gives an empty cache
Init ==
    /\ latest = [n \in Names |-> 1]
    /\ expired = [n \in Names |-> {}]
    /\ cache = [s \in KeyStrings |-> NULL]
    /\ returned = NULL

\* The version the vault serves for a keyID: the newest for "" and
\* "latest", the named one if it exists, 0 if none
Resolve(kid) ==
    IF KR!ToLower(kid.Version) \in {<<>>, KR!Latest} THEN latest[kid.Name]
    ELSE IF \E n \in 1..latest[kid.Name] : VersionString(n) = kid.Version
         THEN CHOOSE n \in 1..latest[kid.Name] : VersionString(n) = kid.Version
         ELSE 0

\* getKeyFromVault: vaultClient.GetKey, then KeyBundleToKey; 0 on error
GetKeyFromVault(kid) == Resolve(kid)

\* keyCache.GetKey(key) with getKeyCacheFn as the loader: the cached key, or
\* the one getKeyFromVault returns; 0 on error
CachedKey(s) == IF cache[s] # NULL THEN cache[s] ELSE GetKeyFromVault(KR!NewKeyID(s))
CacheAfter(s) == IF cache[s] = NULL /\ CachedKey(s) # 0
                 THEN [cache EXCEPT ![s] = CachedKey(s)] ELSE cache

\* A request to the vault with the key: it fails for a missing version and,
\* for encrypt, wrap and sign, for a version past its validity period
InVault(op, s, mustBeValid) ==
    LET kid == KR!NewKeyID(s)
        v == Resolve(kid)
    IN IF v = 0 \/ (mustBeValid /\ v \in expired[kid.Name])
       THEN Result(op, s, "ErrVault", NULL, "vault")
       ELSE Result(op, s, "ok", v, "vault")

\* Mutant: the validity of the cached key is not checked
LocalEncryptNoValidity(op, s) ==
    LET v == CachedKey(s) IN
    /\ cache' = CacheAfter(s)
    /\ returned' = IF v = 0 THEN Result(op, s, "ErrKey", NULL, "local")
                   ELSE Result(op, s, "ok", v, "local")

\* The local path of Encrypt and WrapKey: the public key from the cache,
\* refused when `!dpk.IsValid()`
LocalEncrypt(op, s) ==
    LET v == CachedKey(s) IN
    /\ cache' = CacheAfter(s)
    /\ returned' = CASE v = 0 -> Result(op, s, "ErrKey", NULL, "local")
                     [] v \in expired[KR!NewKeyID(s).Name] -> Result(op, s, "ErrExpired", NULL, "local")
                     [] OTHER -> Result(op, s, "ok", v, "local")

\* GetKey: cacheable keys through the cache, others from the vault
GetKey(s) ==
    LET kid == KR!NewKeyID(s) IN
    /\ \/ /\ KR!Cacheable(kid)
          /\ cache' = CacheAfter(s)
          /\ returned' = IF CachedKey(s) = 0 THEN Result("GetKey", s, "ErrKey", NULL, "local")
                         ELSE Result("GetKey", s, "ok", CachedKey(s), "local")
       \/ /\ ~KR!Cacheable(kid)
          /\ returned' = InVault("GetKey", s, FALSE)
          /\ UNCHANGED cache
    /\ UNCHANGED <<latest, expired>>

\* Encrypt: symmetric algorithms and non-cacheable keys in the vault
\* (encryptInVault), a cacheable key with an asymmetric algorithm locally
Encrypt(s, alg) ==
    /\ \/ /\ alg = "invalid"
          /\ returned' = Result("Encrypt", s, "ErrAlgorithm", NULL, "none")
          /\ UNCHANGED cache
       \/ /\ alg # "invalid"
          /\ ~KR!Cacheable(KR!NewKeyID(s)) \/ alg = "symmetric"
          /\ returned' = InVault("Encrypt", s, TRUE)
          /\ UNCHANGED cache
       \/ /\ alg = "asymmetric" /\ KR!Cacheable(KR!NewKeyID(s))
          /\ LocalEncrypt("Encrypt", s)
    /\ UNCHANGED <<latest, expired>>

\* Decrypt: always in the vault
Decrypt(s, alg) ==
    /\ returned' = IF alg = "invalid" THEN Result("Decrypt", s, "ErrAlgorithm", NULL, "none")
                   ELSE InVault("Decrypt", s, FALSE)
    /\ UNCHANGED <<latest, expired, cache>>

\* WrapKey: only symmetric (oct) keys are wrapped; then routed like Encrypt
\* (wrapKeyInVault or the local public key)
WrapKey(s, alg, kt) ==
    /\ \/ /\ kt # "oct" \/ alg = "invalid"
          /\ returned' = Result("WrapKey", s, "ErrRequest", NULL, "none")
          /\ UNCHANGED cache
       \/ /\ kt = "oct" /\ alg # "invalid"
          /\ ~KR!Cacheable(KR!NewKeyID(s)) \/ alg = "symmetric"
          /\ returned' = InVault("WrapKey", s, TRUE)
          /\ UNCHANGED cache
       \/ /\ kt = "oct" /\ alg = "asymmetric" /\ KR!Cacheable(KR!NewKeyID(s))
          /\ LocalEncrypt("WrapKey", s)
    /\ UNCHANGED <<latest, expired>>

\* UnwrapKey: always in the vault
UnwrapKey(s, alg) ==
    /\ returned' = IF alg = "invalid" THEN Result("UnwrapKey", s, "ErrAlgorithm", NULL, "none")
                   ELSE InVault("UnwrapKey", s, FALSE)
    /\ UNCHANGED <<latest, expired, cache>>

\* Sign: always in the vault
Sign(s, alg) ==
    /\ returned' = IF alg = "invalid" THEN Result("Sign", s, "ErrAlgorithm", NULL, "none")
                   ELSE InVault("Sign", s, TRUE)
    /\ UNCHANGED <<latest, expired, cache>>

\* Verify: non-cacheable keys in the vault (verifyInVault), cacheable ones
\* locally with the cached public key
Verify(s, alg) ==
    /\ \/ /\ alg = "invalid"
          /\ returned' = Result("Verify", s, "ErrAlgorithm", NULL, "none")
          /\ UNCHANGED cache
       \/ /\ alg # "invalid" /\ ~KR!Cacheable(KR!NewKeyID(s))
          /\ returned' = InVault("Verify", s, FALSE)
          /\ UNCHANGED cache
       \/ /\ alg # "invalid" /\ KR!Cacheable(KR!NewKeyID(s))
          /\ cache' = CacheAfter(s)
          /\ returned' = IF CachedKey(s) = 0 THEN Result("Verify", s, "ErrKey", NULL, "local")
                         ELSE Result("Verify", s, "ok", CachedKey(s), "local")
    /\ UNCHANGED <<latest, expired>>

\* The vault: a new version of a key is created (rotation)
Rotate(n) ==
    /\ latest[n] < MaxVersion
    /\ latest' = [latest EXCEPT ![n] = @ + 1]
    /\ returned' = NULL
    /\ UNCHANGED <<expired, cache>>

\* The vault: a version's expiry time passes
ExpireVersion(n, v) ==
    /\ v \in 1..latest[n] \ expired[n]
    /\ expired' = [expired EXCEPT ![n] = @ \cup {v}]
    /\ returned' = NULL
    /\ UNCHANGED <<latest, cache>>

\* The PubKeyCache drops an entry (its eviction policy is not in the
\* repository, so any entry may go at any time)
Evict(s) ==
    /\ cache[s] # NULL
    /\ cache' = [cache EXCEPT ![s] = NULL]
    /\ returned' = NULL
    /\ UNCHANGED <<latest, expired>>

Next ==
    \/ \E s \in KeyStrings :
        \/ GetKey(s) \/ Evict(s)
        \/ \E alg \in EncAlgs :
            \/ Encrypt(s, alg) \/ Decrypt(s, alg) \/ UnwrapKey(s, alg)
            \/ \E kt \in KeyTypes : WrapKey(s, alg, kt)
        \/ \E alg \in SigAlgs : Sign(s, alg) \/ Verify(s, alg)
    \/ \E n \in Names : Rotate(n) \/ \E v \in Versions : ExpireVersion(n, v)

Spec == Init /\ [][Next]_vars

(***************************************************************************)
(* Properties                                                              *)
(***************************************************************************)

\* Every call that succeeds used the key version the vault serves for its
\* key argument at that moment, whether it ran locally on a cached public
\* key or in the vault: caching a key by its string is sound only for
\* pinned versions, since "k" and "k/latest" move on when the key rotates.
UsesServedVersion ==
    [][returned' # NULL /\ returned'.res = "ok"
         => returned'.ver = Resolve(KR!NewKeyID(returned'.key))]_vars

\* No data is encrypted and no key is wrapped or signed with a key version
\* past its validity period, locally or in the vault.
NoUseOfExpiredKey ==
    [][returned' # NULL /\ returned'.res = "ok" /\ returned'.op \in {"Encrypt", "WrapKey", "Sign"}
         => returned'.ver \notin expired[KR!NewKeyID(returned'.key).Name]]_vars

=============================================================================
