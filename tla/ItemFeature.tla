----------------------------- MODULE ItemFeature -----------------------------
(***************************************************************************)
(* From a Feature to the fixed columns of a row (the Feature branch of     *)
(* ItemReader in src/stac/stac_read_functions.cpp, and                     *)
(* src/stac/json_object.cpp).  What becomes of its properties is in        *)
(* ItemSchema, what OFFSET, LIMIT and filters do with it in ItemReader.    *)
(***************************************************************************)
EXTENDS JsonValue

CONSTANT GeometryAsWKT(_)  \* ParseGeometryAsWKT of JsonGeometry

StringOr(json, default) == IF Is("str", json) THEN json[2] ELSE default
Contents(jsons)         == [i \in DOMAIN jsons |-> jsons[i][2]]

(* What is left of all when a loop skips whatever is not at a good place.  *)
Kept(all, good) ==
  LET kept[i \in 0..Len(all)] ==
        IF i = 0 THEN <<>> ELSE IF i \in good THEN Append(kept[i - 1], all[i]) ELSE kept[i - 1]
  IN  kept[Len(all)]

(* The elements of an array that are strings, in their order.              *)
Strings(json) ==
  LET all == Elements(json)
  IN  Contents(Kept(all, {i \in DOMAIN all : Is("str", all[i])}))

ParseBoundingBoxObject(bbox) ==
  LET four == SubSeq(Elements(bbox), 1, 4)
  IN  IF Len(four) = 4 /\ \A i \in 1..4 : IsNumber(four[i])
      THEN [i \in 1..4 |-> GetNum(four[i])] ELSE <<>>

IsLink(json) == Is("obj", json) /\ Is("str", Get(json, "href")) /\ Is("str", Get(json, "rel"))

\* The first invalid link ends the list.
ParseLinksObjectUntilInvalid(links) ==
  LET all  == Elements(links)
      bad  == {i \in DOMAIN all : ~IsLink(all[i])}
      kept == IF bad = {} THEN all
              ELSE SubSeq(all, 1, (CHOOSE i \in bad : \A j \in bad : i <= j) - 1)
  IN  [i \in DOMAIN kept |->
         [href |-> Get(kept[i], "href")[2], type |-> StringOr(Get(kept[i], "type"), ""),
          title |-> StringOr(Get(kept[i], "title"), ""), rel |-> Get(kept[i], "rel")[2]]]

ParseLinksObject(links) ==
  LET all  == Elements(links)
      kept == Kept(all, {i \in DOMAIN all : IsLink(all[i])})
  IN  [i \in DOMAIN kept |->
         [href |-> Get(kept[i], "href")[2], type |-> StringOr(Get(kept[i], "type"), ""),
          title |-> StringOr(Get(kept[i], "title"), ""), rel |-> Get(kept[i], "rel")[2]]]

IsAsset(json) == Is("obj", json) /\ Is("str", Get(json, "href"))

ParseAssetsObject(assets) ==
  [key \in {k \in DOMAIN assets[2] : IsAsset(assets[2][k])} |->
     LET asset == assets[2][key]
     IN  [href |-> Get(asset, "href")[2], type |-> StringOr(Get(asset, "type"), ""),
          title |-> StringOr(Get(asset, "title"), ""),
          description |-> StringOr(Get(asset, "description"), ""),
          roles |-> Strings(Get(asset, "roles"))]]

(* The fields a Feature must have, and the kind of each.                   *)
Required == [id |-> "str", geometry |-> "obj", bbox |-> "arr", stac_version |-> "str",
             stac_extensions |-> "arr", links |-> "arr", assets |-> "obj", properties |-> "obj"]

FeatureThrows(json) ==
  \/ \E field \in DOMAIN Required : ~Is(Required[field], Get(json, field))
  \/ Throws(GeometryAsWKT(Get(json, "geometry")))

(* ids: those of the Catalog and the Collection around the Feature.        *)
FixedColumns(json, ids) ==
  [catalog    |-> ids.catalog,
   collection |-> StringOr(Get(json, "collection"), ids.collection),
   id         |-> Get(json, "id")[2],
   geometry   |-> GeometryAsWKT(Get(json, "geometry")),
   bbox       |-> ParseBoundingBoxObject(Get(json, "bbox")),
   version    |-> Get(json, "stac_version")[2],
   extensions |-> Strings(Get(json, "stac_extensions")),
   links      |-> ParseLinksObject(Get(json, "links")),
   assets     |-> ParseAssetsObject(Get(json, "assets"))]
=============================================================================
