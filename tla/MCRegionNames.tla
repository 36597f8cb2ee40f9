--------------------------- MODULE MCRegionNames ---------------------------
(***************************************************************************)
(* A gazetteer for RegionNames: the names of src/tests/test_region_match   *)
(* and others in use, each with the ground it stands for.                  *)
(***************************************************************************)
EXTENDS RegionNames, FiniteSets

Gyeongbuk == <<"gyeong","sang","buk","do">>
Gyeongnam == <<"gyeong","sang","nam","do">>
Gangwon == <<"gang","won","do">>
GangwonNew == <<"gang","won","teuk","byeol","ja","chi","do">>
Gyeonggi == <<"gyeong","gi","do">>
Busan == <<"bu","san">>
BusanCity == <<"bu","san","gwang","yeok","si">>
Jeonbuk == {<<"jeon","buk","teuk","byeol","ja","chi","do">>,
            <<"jeon","buk","ja","chi","do">>, <<"jeon","ra","buk","do">>}
Jeju == <<"je","ju","do">>

Entry(sido, sigungu, ground) == [sido |-> sido, sigungu |-> sigungu, ground |-> ground]

GyeongjuSi == Entry(Gyeongbuk, <<"gyeong","ju","si">>, {"gyeongju south", "gyeongju west"})
GyeongjuNambu == Entry(Gyeongbuk, <<"gyeong","ju","nam","bu">>, {"gyeongju south"})
GyeongjuSeobu == Entry(Gyeongbuk, <<"gyeong","ju","seo","bu">>, {"gyeongju west"})

Goyang == {"goyang deogyang", "goyang ilsan"}

Gazetteer ==
  {GyeongjuSi, GyeongjuNambu, GyeongjuSeobu,
   Entry(BusanCity, <<"hae","un","dae","gu">>, {"haeundae"}),
   Entry(BusanCity, <<"su","yeong","gu">>, {"suyeong"}),
   Entry(Busan, Whole, {"haeundae", "suyeong"}),
   Entry(Gyeongnam, <<"go","seong","gun">>, {"goseong in the south"}),
   Entry(Gyeongnam, <<"geo","chang","nam","bu">>, {"geochang"}),
   Entry(Gyeongnam, Whole, {"goseong in the south", "geochang"}),
   Entry(Gangwon, <<"go","seong">>, {"goseong in the north"}),
   Entry(GangwonNew, <<"go","seong","gun">>, {"goseong in the north"}),
   Entry(Gyeonggi, <<"yang","ju","si">>, {"yangju"}),
   Entry(Gyeonggi, <<"nam","yang","ju">>, {"namyangju"}),
   Entry(Gyeonggi, <<"go","yang">>, Goyang),
   Entry(Gyeonggi, <<"go","yang","si">>, Goyang),
   Entry(Gyeonggi, <<"go","yang","si",Space,"deok","yang","gu">>, {"goyang deogyang"}),
   Entry(Gyeonggi, <<"go","yang","si",Space,"il","san","dong","gu">>, {"goyang ilsan"})}
  \cup {Entry(sido, n, {"jeonju"}) :
          sido \in Jeonbuk, n \in {<<"jeon","ju">>, <<"jeon","ju","si">>}}

\* Two names match exactly when they share ground, as the user and the
\* service write them and as they are stored.
ASSUME NamesFollowGround ==
  \A a, b \in Gazetteer :
    LET share == a.ground \cap b.ground # {}
    IN  /\ RegionsMatch(a, b) = share
        /\ RegionsMatch(StoredRegion(a.sido, a.sigungu),
                        StoredRegion(b.sido, b.sigungu)) = share

\* At most one entry of the table applies, so its order does not matter.
ASSUME OneKeyPerSido ==
  \A e, f \in SidoPrefixToKey : StartsWith(e[1], f[1]) => e = f

\* The limit crud.regions_match names, forecast zones that follow no
\* division: those of Jeju all match the city of that name, whatever side
\* of the island they are on, and never the city of Seogwipo.
JejuZones == {<<"je","ju","do","san","ji">>, <<"je","ju","do","nam","bu">>}
ASSUME JejuZonesMisplaced ==
  \A z \in JejuZones :
    LET zone == [sido |-> Jeju, sigungu |-> z]
    IN  /\ RegionsMatch([sido |-> Jeju, sigungu |-> <<"je","ju","si">>], zone)
        /\ ~RegionsMatch([sido |-> Jeju, sigungu |-> <<"seo","gwi","po","si">>], zone)
=============================================================================
