----------------------------- MODULE MCGpkgSrs -----------------------------
(* GpkgSrs with 4326 drawn down to 2 and 100000 to 5, so that carried ids   *)
(* fall below, on and above the first synthetic ones.                       *)
EXTENDS GpkgSrs

CONSTANTS x, y, p, q, wkt1, wkt2, esri

MCLayerNames == {x, y}
MCObjectNames == {p, q}
MCAuths == {Epsg, NoAuthority, esri}
MCDefs == {Unknown, wkt1, wkt2}

Wgs84 == [kind |-> "wgs84"]
System(auth, code, def) == [kind |-> "named", auth |-> auth, code |-> code, def |-> def]

(* Systems without a code.                                                 *)
MCCodeless ==
  {System(None, None, wkt1), System(None, None, wkt2)}

(* Systems of a registry beside them: one code written with and without    *)
(* its authority, and one number that two authorities give out.            *)
MCAll == {Wgs84, System(None, 2, wkt1), System(Epsg, 3, wkt1), System(None, 3, Unknown),
          System(esri, 3, wkt2), System(None, None, wkt1),
          System(esri, Word, wkt2), System(esri, -3, Unknown)}

Def(org, code, def) == [org |-> org, code |-> code, def |-> def]

MCObjects ==
  {[name |-> p, id |-> 3, def |-> Def(Epsg, 3, wkt1)],
   [name |-> p, id |-> 5, def |-> Def(esri, 5, wkt1)],
   [name |-> q, id |-> 3, def |-> Def(esri, 3, wkt2)],
   [name |-> q, id |-> 6, def |-> Def(NoAuthority, 6, wkt2)],
   [name |-> q, id |-> 6, def |-> None],
   [name |-> q, id |-> -1, def |-> None],
   [name |-> p, id |-> 2, def |-> Def(Epsg, 2, Unknown)]}

MCNoObjects == {}
=============================================================================
