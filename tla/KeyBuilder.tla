----------------------------- MODULE KeyBuilder -----------------------------
(***************************************************************************)
(* Keys, patterns and scopes as texts: src/src/server/utils/key-builder.ts *)
(* and what Redis makes of a pattern. A text is a sequence of characters,  *)
(* so that separators that overlap and glob characters are told apart.     *)
(***************************************************************************)
EXTENDS Naturals, Sequences, SequencesExt

(* text.includes(part)                                                     *)
Includes(text, part) ==
  \E i \in 0 .. Len(text) - Len(part) : \A j \in DOMAIN part : text[i + j] = part[j]

-----------------------------------------------------------------------------
(* KeyBuilder, for options with a namespace and a separator. An empty part *)
(* is refused with INVALID_KEY.                                            *)

IsKeyPart(text) == text # <<>>

GetNamespacePrefix(options) == options.namespace \o options.keySeparator

ApplyNamespace(options, key) == GetNamespacePrefix(options) \o key

Build(options, prefix, id) == GetNamespacePrefix(options) \o (prefix \o options.keySeparator \o id)

(* Mutant: the separator is left out.                                      *)
FlushUnseparated(options) == options.namespace \o <<"*">>

(* The pattern of flushNamespace.                                          *)
FlushPattern(options) == GetNamespacePrefix(options) \o <<"*">>

-----------------------------------------------------------------------------
(* The glob patterns of Redis. No text here closes a character class, so   *)
(* one that opens takes the rest of the pattern.                           *)

(* Where in the key the pattern may match from its i-th character on, if   *)
(* it does from the next one on at the places next, and from the one after *)
(* that at the places after.                                               *)
Places(pattern, key, i, next, after) ==
  CASE pattern[i] = "*" -> {j \in 1 .. Len(key) + 1 : \E k \in next : j <= k}
    [] pattern[i] = "?" -> {j \in DOMAIN key : j + 1 \in next}
    [] pattern[i] = "[" ->
         {j \in DOMAIN key : j = Len(key) /\ key[j] \in ToSet(SubSeq(pattern, i + 1, Len(pattern)))}
    [] pattern[i] = "\\" /\ i < Len(pattern) ->
         {j \in DOMAIN key : key[j] = pattern[i + 1] /\ j + 1 \in after}
    [] OTHER -> {j \in DOMAIN key : key[j] = pattern[i] /\ j + 1 \in next}

GlobMatches(pattern, key) ==
  LET from[i \in 1 .. Len(pattern) + 1] ==
        IF i > Len(pattern) THEN {Len(key) + 1} ELSE Places(pattern, key, i, from[i + 1], from[i + 2])
  IN  1 \in from[1]

GlobMetacharacters == {"*", "?", "[", "\\"}

(* Mutant: the namespace is not searched for the separator.                *)
NamespaceUnsearched(namespace, separator) ==
  /\ \E i \in DOMAIN namespace : namespace[i] # " "
  /\ separator # <<>>
  /\ ToSet(namespace) \cap GlobMetacharacters = {}

(* Mutant: the namespace may hold glob characters.                         *)
NamespaceMatching(namespace, separator) ==
  /\ \E i \in DOMAIN namespace : namespace[i] # " "
  /\ separator # <<>>
  /\ ~Includes(namespace, separator)

(* validateNamespace: what INVALID_NAMESPACE is not thrown for.            *)
NamespaceHolds(namespace, separator) ==
  /\ \E i \in DOMAIN namespace : namespace[i] # " "
  /\ separator # <<>>
  /\ ToSet(namespace) \cap GlobMetacharacters = {}
  /\ ~Includes(namespace, separator)

-----------------------------------------------------------------------------
(* Scopes of the administration surface: literal characters and at most    *)
(* one * at the end (validate-scopes.ts).                                  *)
IsPrefixMatch(pattern) == Last(pattern) = "*"
LiteralPart(pattern)   == IF IsPrefixMatch(pattern) THEN Front(pattern) ELSE pattern

ScopePatternShape(pattern) ==
  /\ pattern # <<>>
  /\ LiteralPart(pattern) # <<>>
  /\ ToSet(LiteralPart(pattern)) \cap GlobMetacharacters = {}

IsKeyInScope(pattern, key) ==
  IF IsPrefixMatch(pattern) THEN IsPrefix(LiteralPart(pattern), key) ELSE key = pattern
=============================================================================
