----------------------------- MODULE DepthWidth -----------------------------
(***************************************************************************)
(* The widths of a depth (detail/depth.hpp): how many of its four bytes    *)
(* the largest depth of a forest needs.                                    *)
(***************************************************************************)
EXTENDS Naturals

CONSTANT Radix   \* radix_bucket_count, the values of a byte

\* The values of so many bytes.
RadixPower ==
  [bytes \in 0 .. 4 |->
     CASE bytes = 0 -> 1
       [] bytes = 1 -> Radix
       [] bytes = 2 -> Radix * Radix
       [] bytes = 3 -> Radix * Radix * Radix
       [] bytes = 4 -> Radix * Radix * Radix * Radix]

\* maxDepthForPrefix
MaxDepthForPrefix(bytes) == RadixPower[bytes] - 1

\* depthPrefixBytesForMax, and one that puts the first value past a width's
\* last into that width.
OneTooMany(maximum) ==
  CHOOSE bytes \in 1 .. 4 :
    /\ maximum <= RadixPower[bytes] \/ bytes = 4
    /\ \A fewer \in 1 .. bytes - 1 : maximum > RadixPower[fewer]
PrefixBytesForMax(maximum) ==
  CHOOSE bytes \in 1 .. 4 :
    /\ maximum <= MaxDepthForPrefix(bytes) \/ bytes = 4
    /\ \A fewer \in 1 .. bytes - 1 : maximum > MaxDepthForPrefix(fewer)
=============================================================================
