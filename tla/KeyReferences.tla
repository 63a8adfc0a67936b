--------------------------- MODULE KeyReferences ---------------------------
(***************************************************************************)
(* How crypto providers parse the `key` argument of their methods.         *)
(*  - Azure Key Vault (src/bindings/azure/storagequeues/storagequeues.go,  *)
(*    package keyvault): newKeyID splits "name" or "name/version" at the   *)
(*    first '/', and Cacheable says whether the version is pinned.         *)
(*  - Kubernetes secrets (src/unnamed/part_001): parseKeyString reads      *)
(*    "namespace/secretName/key" or "secretName/key".                      *)
(* A Go string is a sequence of one-character strings.  Each operator is   *)
(* checked against a reference definition, written from the documented     *)
(* format, over every string of a small alphabet up to a bound.            *)
(***************************************************************************)
EXTENDS Naturals, Sequences, FiniteSets, SequencesExt

CONSTANTS
    Chars,      \* the alphabet of the enumerated strings, with "/"
    MaxLen,     \* bound on the length of the enumerated strings
    Namespaces  \* values of defaultNamespace, <<>> when it is not set

ASSUME "/" \in Chars

VARIABLES
    key,        \* the key argument
    defaultNs   \* k.defaultNamespace

vars == <<key, defaultNs>>

Latest == <<"l", "a", "t", "e", "s", "t">>

\* strings.ToLower on the letters the models use
LowerChar(c) == CASE c = "L" -> "l" [] c = "A" -> "a" [] c = "T" -> "t"
                  [] c = "E" -> "e" [] c = "S" -> "s" [] OTHER -> c
ToLower(s) == [i \in DOMAIN s |-> LowerChar(s[i])]

\* strings.IndexRune(s, r): the 0-based index of the first r, or -1
RECURSIVE IndexFrom(_, _, _)
IndexFrom(s, c, i) == IF i > Len(s) THEN -1
                      ELSE IF s[i] = c THEN i - 1 ELSE IndexFrom(s, c, i + 1)
IndexRune(s, c) == IndexFrom(s, c, 1)

\* newKeyID: split at the first '/' unless it is the first character
NewKeyID(val) ==
    LET idx == IndexRune(val, "/") IN
    IF idx > 0 THEN [Name |-> SubSeq(val, 1, idx), Version |-> SubSeq(val, idx + 2, Len(val))]
    ELSE [Name |-> val, Version |-> <<>>]

\* Mutant: only the unversioned key is treated as moving
CacheableNoLatest(id) == id.Version # <<>>

\* keyID.Cacheable: every version but "" and "latest" (any case) is pinned
Cacheable(id) == ToLower(id.Version) \notin {<<>>, Latest}

\* strings.Split(s, "/")
RECURSIVE Split(_)
Split(s) == IF ~Contains(s, "/") THEN <<s>>
            ELSE LET i == IndexRune(s, "/") + 1 IN
                 <<SubSeq(s, 1, i - 1)>> \o Split(SubSeq(s, i + 1, Len(s)))

NoKey == [namespace |-> <<>>, secret |-> <<>>, key |-> <<>>, err |-> TRUE]

\* parseKeyString(param): the split is of `key`, the function's named
\* result, which is still empty, so `parts` is always <<"">>
ParseKeyString(param, dns) ==
    LET parts == Split(<<>>)
        r == CASE Len(parts) = 3 -> [namespace |-> parts[1], secret |-> parts[2],
                                     key |-> parts[3], err |-> FALSE]
               [] Len(parts) = 2 -> [namespace |-> dns, secret |-> parts[1],
                                     key |-> parts[2], err |-> FALSE]
               [] OTHER -> NoKey
    IN IF r.namespace = <<>> THEN [r EXCEPT !.err = TRUE] ELSE r

(***************************************************************************)
(* Reference definitions, from the documented formats                      *)
(***************************************************************************)

\* "namespace/secretName/key", or "secretName/key" in the default
\* namespace; a key reference without a namespace is an error
RefParseKeyString(param, dns) ==
    LET slashes == {i \in DOMAIN param : param[i] = "/"}
        a == Min(slashes)
        b == Max(slashes)
        r == CASE Cardinality(slashes) = 2 ->
                    [namespace |-> SubSeq(param, 1, a - 1), secret |-> SubSeq(param, a + 1, b - 1),
                     key |-> SubSeq(param, b + 1, Len(param)), err |-> FALSE]
               [] Cardinality(slashes) = 1 ->
                    [namespace |-> dns, secret |-> SubSeq(param, 1, a - 1),
                     key |-> SubSeq(param, a + 1, Len(param)), err |-> FALSE]
               [] OTHER -> NoKey
    IN IF r.namespace = <<>> THEN [r EXCEPT !.err = TRUE] ELSE r

\* Two results agree when both fail, or both succeed with the same parts
SameResult(r, s) == r.err = s.err /\ (~r.err => r = s)

Inputs == BoundedSeq(Chars, MaxLen)

Init == key \in Inputs /\ defaultNs \in Namespaces

\* The next call, with any argument
Next == key' \in Inputs /\ defaultNs' \in Namespaces

Spec == Init /\ [][Next]_vars

(***************************************************************************)
(* Properties                                                              *)
(***************************************************************************)

\* parseKeyString accepts exactly the documented formats and returns their
\* parts, with the default namespace when none is given.
ParseKeyStringFollowsFormat ==
    SameResult(ParseKeyString(key, defaultNs), RefParseKeyString(key, defaultNs))

=============================================================================
