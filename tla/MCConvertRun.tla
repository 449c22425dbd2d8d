---------------------------- MODULE MCConvertRun ----------------------------
(* ConvertRun on a directory where a Shapefile roads and its sidecars may   *)
(* or may not exist in either spelling, beside rivers.csv, rivers.gpkg.     *)
EXTENDS ConvertRun

CONSTANTS roads, rivers

MCStems == {roads, rivers}
MCLayerNames == {roads, rivers}

File(stem, ext, upper) == [stem |-> stem, ext |-> ext, upper |-> upper]
Side(path, format) == [path |-> path, format |-> format]

(* The last is a GeoPackage under another format's name, with --from gpkg.  *)
MCInputs ==
  {Side(File(rivers, "csv", FALSE), "one"), Side(File(rivers, "gpkg", FALSE), "gpkg"),
   Side(File(roads, "shp", FALSE), "shp"), Side(File(roads, "shp", TRUE), "shp"),
   Side(File(rivers, "csv", FALSE), "gpkg")}

MCOutputs ==
  {Side(File(roads, "shp", FALSE), "shp"), Side(File(roads, "shp", TRUE), "shp"),
   Side(File(rivers, "shp", FALSE), "shp"),
   Side(File(roads, "dbf", FALSE), "one"), Side(File(roads, "dbf", TRUE), "one"),
   Side(File(roads, "gpkg", FALSE), "gpkg"), Side(File(rivers, "csv", FALSE), "one"),
   Side(Directory, "shp"), Side(Directory, "one")}

(* Any of these may exist beside the two inputs.                           *)
Optional ==
  {File(roads, "shp", FALSE), File(roads, "shp", TRUE), File(roads, "dbf", FALSE),
   File(roads, "dbf", TRUE), File(roads, "prj", TRUE), File(roads, "prj", FALSE), File(roads, "qix", FALSE), File(roads, "gpkg", FALSE)}

MCDisks ==
  {s \cup {File(rivers, "csv", FALSE), File(rivers, "gpkg", FALSE)} : s \in SUBSET Optional}
=============================================================================
