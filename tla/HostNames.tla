------------------------------ MODULE HostNames ------------------------------
(***************************************************************************)
(* Names, patterns and paths, and when they match (routing/matcher.rs and  *)
(* the wildcards of lib/tls/src/cert_store.rs).                            *)
(*                                                                         *)
(* A name is the sequence of its labels, a pattern a name whose first      *)
(* label is "*" when it is a wildcard, and a path what lies between its    *)
(* slashes: "/a" is <<"a">>, "/a/" is <<"a", "">>, "/" is <<"">>.          *)
(***************************************************************************)
EXTENDS Integers, Sequences

LOCAL INSTANCE SequencesExt

CONSTANTS
  Lowercase,   \* to_ascii_lowercase, of a label
  Size         \* how many characters a label or a segment has

ToLower(name) == [i \in DOMAIN name |-> Lowercase[name[i]]]

AnyHost == <<"*">>

IsWildcard(pattern) == Len(pattern) > 1 /\ pattern[1] = "*"

(* One label, not empty, and then the suffix.                              *)
SuffixMatches(suffix, host) ==
  Len(host) = Len(suffix) + 1 /\ Tail(host) = suffix /\ host[1] # ""

(* host_matches; patterns in the table are in lowercase.                   *)
HostMatches(pattern, host) ==
  \/ pattern = AnyHost
  \/ IsWildcard(pattern) /\ SuffixMatches(Tail(pattern), host)
  \/ pattern # AnyHost /\ ~ IsWildcard(pattern) /\ ToLower(pattern) = ToLower(host)

(* path_prefix_matches: up to the end of a segment, and a prefix that ends *)
(* in a slash up to that.                                                  *)
PathPrefixMatches(prefix, path) ==
  \/ prefix \in {<<"">>, <<>>}
  \/ IsPrefix(prefix, path)
  \/ prefix[Len(prefix)] = "" /\ IsPrefix(Front(prefix), path) /\ Len(path) >= Len(prefix)

(* The length of a path or of a name as a string: a slash or a dot, and    *)
(* the characters, for each of its parts.                                  *)
Length(parts) == FoldLeft(LAMBDA sum, part : sum + 1 + Size[part], 0, parts)

=============================================================================
