---------------------------- MODULE RegionNames ----------------------------
(***************************************************************************)
(* How app/crud.py decides that the region a user subscribed to and the    *)
(* region of an event are the same place.  Names come from two worlds, the *)
(* administrative divisions of the form and the forecast zones of the      *)
(* public services, so they are compared by their beginnings.  A name is a *)
(* sequence of syllables, the characters of its Hangul spelling, with      *)
(* Space between its words.                                                *)
(***************************************************************************)
EXTENDS Naturals, Sequences

Space == " "
CitySuffixes == {"si", "gun"}

\* The sigungu of a warning for a whole sido.
Whole == <<"jeon", "che">>

StartsWith(n, prefix) ==
  /\ Len(prefix) <= Len(n)
  /\ \A i \in 1..Len(prefix) : n[i] = prefix[i]

\* A city or county named by one word loses its suffix.
NormalizeSigungu(n) ==
  IF /\ Len(n) >= 3 /\ n[Len(n)] \in CitySuffixes
     /\ \A i \in 1..Len(n) : n[i] # Space
    THEN SubSeq(n, 1, Len(n) - 1)
    ELSE n

\* _SIDO_PREFIX_TO_KEY: the keys are the short names themselves.
ShortSidos ==
  {<<"seo","ul">>, <<"bu","san">>, <<"dae","gu">>, <<"in","cheon">>,
   <<"gwang","ju">>, <<"dae","jeon">>, <<"ul","san">>, <<"se","jong">>,
   <<"gyeong","gi">>, <<"gang","won">>, <<"chung","buk">>, <<"chung","nam">>,
   <<"jeon","buk">>, <<"jeon","nam">>, <<"gyeong","buk">>, <<"gyeong","nam">>,
   <<"je","ju">>}

LongSidos ==
  {p \o <<half>> : p \in {<<"chung","cheong">>, <<"jeon","ra">>, <<"gyeong","sang">>},
                  half \in {"buk", "nam"}}

SidoPrefixToKey ==
  {<<s, s>> : s \in ShortSidos} \cup {<<s, <<s[1], s[3]>>>> : s \in LongSidos}

CanonicalSido(s) ==
  LET entries == {e \in SidoPrefixToKey : StartsWith(s, e[1])}
  IN  IF entries = {} THEN s ELSE (CHOOSE e \in entries : TRUE)[2]

\* regions_match.
RegionsMatch(r, e) ==
  /\ CanonicalSido(r.sido) = CanonicalSido(e.sido)
  /\ \/ Whole \in {r.sigungu, e.sigungu}
     \/ StartsWith(NormalizeSigungu(r.sigungu), NormalizeSigungu(e.sigungu))
     \/ StartsWith(NormalizeSigungu(e.sigungu), NormalizeSigungu(r.sigungu))

\* The row get_or_create_region looks for and inserts.
StoredRegion(sido, sigungu) ==
  [sido |-> sido, sigungu |-> NormalizeSigungu(sigungu)]
=============================================================================
