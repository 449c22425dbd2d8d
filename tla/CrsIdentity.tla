----------------------------- MODULE CrsIdentity -----------------------------
(***************************************************************************)
(* What a layer says of its reference system, and what each format records *)
(* of it: src/crs.rs, parquet/geo.rs, the .prj of a Shapefile, and the     *)
(* single-layer case of GeoPackage's registry (GpkgSrs has the rest).      *)
(*                                                                         *)
(* First the definitions, in their three spellings, and the translations   *)
(* of src/crs/wkt_projjson.rs between them. A definition is what its nodes *)
(* say; an id is an authority and a code, a missing one the empty Option.  *)
(* The crosswalk tables of wkt1_tables.rs are the constants: the methods   *)
(* with a WKT1 name, and of these the ones whose axes may be taken to be   *)
(* easting and northing when the text lists none.                          *)
(***************************************************************************)
EXTENDS Integers, Sequences, SequencesExt

CONSTANTS
  Methods,       \* the projection methods METHODS names
  EnDefaultSafe  \* those with en_default_safe

ASSUME CrosswalkAssumption == EnDefaultSafe \subseteq Methods

Code(n) == [numeric |-> TRUE, n |-> n]
Worded(n) == [numeric |-> FALSE, n |-> n]
Id(authority, code) == [authority |-> authority, code |-> code]

(* datum: "datum", "ensemble" or "none"; meridian: none for Greenwich;     *)
(* inner: the id of the datum or of the unit, which is nobody else's.      *)
Geographic(datum, meridian, unit, dim, id) ==
  [datum |-> datum, accuracy |-> TRUE, ellipsoidUnit |-> "metre", meridian |-> meridian,
   unit |-> unit, dim |-> dim, inner |-> <<>>, id |-> id]

Definition(form, kind, geo, method, axes, linear, id) ==
  [form |-> form, kind |-> kind, geo |-> geo, method |-> method, axes |-> axes,
   linear |-> linear, linearId |-> <<>>, id |-> id]

GeographicIn(form, geo) == Definition(form, "geographic", geo, <<>>, <<>>, "none", geo.id)

(* node_authority_code and pj_id: the node's own id, if its code is a number. *)
OwnId(id) == IF id # <<>> /\ id[1].code.numeric THEN id ELSE <<>>

-----------------------------------------------------------------------------
(* render_geographic_dim and render_datum: a datum needs an ellipsoid, an   *)
(* ensemble without an accuracy becomes a datum and loses its meridian.    *)
RenderGeographic(geo, dim) ==
  IF geo.datum = "none" THEN <<>>
  ELSE <<[geo EXCEPT
            !.datum = IF @ = "ensemble" /\ ~geo.accuracy THEN "datum" ELSE @,
            !.meridian = IF geo.datum = "ensemble" THEN <<>> ELSE @,
            !.dim = dim, !.inner = <<>>, !.id = OwnId(@)]>>

(* render_cartesian and render_cartesian_wkt1: the axes of the text, or     *)
(* easting and northing where it has fewer than two; only a WKT1 text       *)
(* keeps its unit then.                                                    *)
RenderAxes(d) == IF Len(d.axes) >= 2 THEN d.axes ELSE <<"east", "north">>
RenderLinear(d) == IF Len(d.axes) >= 2 \/ d.form = "WKT1" THEN d.linear ELSE "metre"

(* render_projected: every name of a WKT2 text must carry its id. Of a WKT1 *)
(* text (render_projected_wkt1) the tables give the ids.                   *)
MethodKnown(d) ==
  IF d.form = "WKT2" THEN OwnId(d.method[1].id) # <<>>
  ELSE d.method[1].name \in Methods /\ (d.axes # <<>> \/ d.method[1].name \in EnDefaultSafe)

MethodOf(d) ==
  <<[name |-> d.method[1].name,
     id |-> IF d.form = "WKT2" THEN d.method[1].id ELSE <<Id("EPSG", Code(d.method[1].name))>>]>>

RenderProjected(d) ==
  LET base == RenderGeographic(d.geo, IF Len(d.axes) > 2 THEN Len(d.axes) ELSE 2)
  IN  IF base = <<>> \/ d.method = <<>> \/ ~MethodKnown(d) THEN <<>>
      ELSE <<Definition("PROJJSON", "projected", base[1], MethodOf(d), RenderAxes(d),
                        RenderLinear(d), OwnId(d.id))>>

WktToProjjson(d) ==
  LET geo == RenderGeographic(d.geo, d.geo.dim)
  IN  CASE d.kind = "geographic" -> IF geo = <<>> THEN <<>> ELSE <<GeographicIn("PROJJSON", geo[1])>>
        [] d.kind = "projected"  -> RenderProjected(d)
        [] OTHER                 -> <<>>

-----------------------------------------------------------------------------
(* render_wkt1_geographic: the unit is always written as a degree and there *)
(* is no third axis; what no WKT1 node can say declines.                   *)
RenderWkt1Geographic(geo) ==
  IF \/ geo.datum # "datum"
     \/ geo.ellipsoidUnit # "metre"
     \/ geo.meridian # <<>> /\ geo.meridian[1].unit # "degree"
  THEN <<>>
  ELSE <<[geo EXCEPT !.unit = "degree", !.dim = 2, !.inner = <<>>, !.id = OwnId(@)]>>

RenderWkt1Projected(d) ==
  LET base == RenderWkt1Geographic(d.geo)
      known == d.method # <<>> /\ d.method[1].id # <<>> /\ d.method[1].id[1].code.n \in Methods
  IN  IF base = <<>> \/ ~known \/ d.axes = <<>> THEN <<>>
      ELSE <<Definition("WKT1", "projected", base[1],
                        <<[name |-> d.method[1].id[1].code.n, id |-> <<>>]>>, d.axes, d.linear, OwnId(d.id))>>

ProjjsonToWkt(d) ==
  LET geo == RenderWkt1Geographic(d.geo)
  IN  CASE d.kind = "geographic" -> IF geo = <<>> THEN <<>> ELSE <<GeographicIn("WKT1", geo[1])>>
        [] d.kind = "projected"  -> RenderWkt1Projected(d)
        [] OTHER                 -> <<>>

(* What a definition says of the earth, whatever its spelling and its ids. *)
Meaning(d) ==
  [kind |-> d.kind, ellipsoid |-> d.geo.ellipsoidUnit, meridian |-> d.geo.meridian, unit |-> d.geo.unit,
   method |-> IF d.method = <<>> THEN 0 ELSE d.method[1].name, axes |-> RenderAxes(d), linear |-> d.linear]

-----------------------------------------------------------------------------
(* Crs::Wgs84 and Crs::Named. Every field of NamedCrs is an Option.        *)
Named(authority, code, wkt, projjson) ==
  [wgs84 |-> FALSE, authority |-> authority, code |-> code, wkt |-> wkt, projjson |-> projjson]
Wgs84 == [Named(<<>>, <<>>, <<>>, <<>>) EXCEPT !.wgs84 = TRUE]

(* The ids of a WKT text in the order they stand, each with its depth.     *)
IdsOf(d) ==
  LET at(depth, id) == IF id = <<>> THEN <<>> ELSE <<[depth |-> depth, id |-> id[1]]>>
  IN  IF d.kind = "projected"
      THEN at(3, d.geo.inner) \o at(2, d.geo.id) \o at(2, d.linearId) \o at(1, d.id)
      ELSE at(2, d.geo.inner) \o at(1, d.id)

(* wkt_authority_code: the shallowest id, the last of those.               *)
WktAuthorityCode(d) ==
  LET ids == IdsOf(d)
      least == {i \in DOMAIN ids : \A j \in DOMAIN ids : ids[i].depth <= ids[j].depth}
  IN  IF ids = <<>> THEN <<>> ELSE <<ids[CHOOSE i \in least : \A j \in least : j <= i].id>>

(* Mutant of FromAuthorityCode: a WKT's id replaces a code the source gave. *)
FromAuthorityCodeOfWkt(authority, code, wkt, projjson) ==
  LET lifted == IF wkt = <<>> THEN <<>> ELSE WktAuthorityCode(wkt[1])
  IN  IF lifted = <<>> THEN Named(authority, code, wkt, projjson)
      ELSE Named(<<lifted[1].authority>>, <<lifted[1].code>>, wkt, projjson)

(* from_authority_code: of a total blank the WKT's id is taken, and the two *)
(* spellings of WGS 84 become it.                                          *)
FromAuthorityCode(authority, code, wkt, projjson) ==
  LET lifted == IF authority = <<>> /\ code = <<>> /\ wkt # <<>> THEN WktAuthorityCode(wkt[1]) ELSE <<>>
      a == IF lifted = <<>> THEN authority ELSE <<lifted[1].authority>>
      c == IF lifted = <<>> THEN code ELSE <<lifted[1].code>>
  IN  IF \/ a = <<"EPSG">> /\ c = <<Code(4326)>>
         \/ a = <<"OGC">> /\ c = <<Worded(84)>>
      THEN Wgs84 ELSE Named(a, c, wkt, projjson)

(* crs_from_projjson: the id of the object, of which both halves may count. *)
CrsFromProjjson(d) ==
  IF d.id = <<>> THEN FromAuthorityCode(<<>>, <<>>, <<>>, <<d>>)
  ELSE FromAuthorityCode(<<d.id[1].authority>>, <<d.id[1].code>>, <<>>, <<d>>)

(* from_definition_text: the text given with --crs.                        *)
FromDefinitionText(d) ==
  IF d.form = "PROJJSON" THEN CrsFromProjjson(d) ELSE FromAuthorityCode(<<>>, <<>>, <<d>>, <<>>)

(* authority_code: both halves, and never the placeholder's.               *)
AuthorityCode(crs) ==
  IF crs.wgs84 THEN <<Id("OGC", Worded(84))>>
  ELSE IF crs.authority \in {<<>>, <<"NONE">>} \/ crs.code = <<>> THEN <<>>
       ELSE <<Id(crs.authority[1], crs.code[1])>>

DefinitionBody(crs) == IF crs.projjson # <<>> THEN crs.projjson ELSE crs.wkt

StructuralWkt(crs) == IF crs.projjson = <<>> THEN <<>> ELSE ProjjsonToWkt(crs.projjson[1])

(* The WKT a WKT-speaking target writes.                                   *)
AsWkt(crs) == IF crs.wkt # <<>> THEN crs.wkt ELSE StructuralWkt(crs)

-----------------------------------------------------------------------------
(* downgrade_warning: whether a conversion says that the system is lost.   *)
Egm96 == Id("EPSG", Code(9707))
IsWgs84Egm96(crs) == ~crs.wgs84 /\ AuthorityCode(crs) = <<Egm96>>

ParquetExpressible(crs) ==
  crs.projjson # <<>> \/ (crs.wkt # <<>> /\ WktToProjjson(crs.wkt[1]) # <<>>)
WktExpressible(crs) == crs.code # <<>> \/ AsWkt(crs) # <<>>
ShapefileExpressible(crs) == AsWkt(crs) # <<>>

PositiveNumber(code) == code.numeric /\ code.n > 0

DowngradeWarned(crs, target) ==
  /\ ~crs.wgs84
  /\ CASE target \in {"Kml", "Kmz"} -> ~IsWgs84Egm96(crs)
       [] target \in {"GeoJson", "Csv", "Wkt"} -> TRUE
       [] target = "Parquet" -> ~ParquetExpressible(crs)
       [] target = "Shapefile" -> ~ShapefileExpressible(crs)
       [] OTHER -> ~WktExpressible(crs) \/ (crs.code # <<>> /\ ~PositiveNumber(crs.code[1]))

-----------------------------------------------------------------------------
(* GeoParquet: crs_projjson, and the member left out for WGS 84 and none.  *)
IdOnly(id) == [Definition("PROJJSON", "other", Geographic("none", <<>>, "degree", 2, <<>>), <<>>, <<>>,
                          "none", <<id>>) EXCEPT !.linearId = <<>>]

CrsProjjson(crs) ==
  LET translated == IF crs.wkt = <<>> THEN <<>> ELSE WktToProjjson(crs.wkt[1])
  IN  CASE crs.projjson # <<>> -> crs.projjson
        [] translated # <<>>   -> translated
        [] crs.authority # <<>> /\ crs.code # <<>> -> <<IdOnly(Id(crs.authority[1], crs.code[1]))>>
        [] OTHER -> <<>>

GeoMember(crs) == IF crs = <<>> \/ crs[1].wgs84 THEN <<>> ELSE CrsProjjson(crs[1])

(* parse_crs: a member that is absent means WGS 84.                        *)
ParseCrs(member) == <<IF member = <<>> THEN Wgs84 ELSE CrsFromProjjson(member[1])>>

(* Shapefile: prj_wkt. The text for WGS 84 carries no id.                  *)
Wgs84Wkt1 == GeographicIn("WKT1", Geographic("datum", <<>>, "degree", 2, <<>>))

PrjWkt(crs) == IF crs = <<>> THEN <<>> ELSE IF crs[1].wgs84 THEN <<Wgs84Wkt1>> ELSE AsWkt(crs[1])
ReadPrj(prj) == IF prj = <<>> THEN <<>> ELSE <<FromAuthorityCode(<<>>, <<>>, prj, <<>>)>>

(* GeoPackage, of one layer: the row its id names, none for undefined.     *)
SyntheticSrsBase == 100000

ResolveSrs(crs) ==
  IF crs = <<>> THEN <<>>
  ELSE LET c == crs[1]
           registered == c.code # <<>> /\ PositiveNumber(c.code[1])
           organization(default) == IF c.authority = <<>> THEN default ELSE c.authority[1]
           coordsys == IF c.code # <<>> /\ c.code[1].numeric THEN c.code[1].n ELSE SyntheticSrsBase
       IN  IF c.wgs84 \/ c.code = <<Code(4326)>>
           THEN <<[organization |-> "EPSG", code |-> 4326, definition |-> <<Wgs84Wkt1>>]>>
           ELSE <<[organization |-> organization(IF registered THEN "EPSG" ELSE "NONE"),
                   code |-> coordsys, definition |-> AsWkt(c)]>>

ResolveCrs(row) ==
  IF row = <<>> THEN <<>>
  ELSE <<FromAuthorityCode(<<row[1].organization>>, <<Code(row[1].code)>>, row[1].definition, <<>>)>>
=============================================================================
