----------------------------- MODULE KmlTables ------------------------------
(***************************************************************************)
(* What the two schemas admit under each element, as the tables generated  *)
(* from them say: the sequence KML 2.2 declares for its children           *)
(* (lower.rs), names of another namespace with their prefix, and the set   *)
(* KML 2.3 admits (raise.rs). A table's parts run in the parents' order.   *)
(***************************************************************************)
EXTENDS KmlDocument

(* The elements 2.2 has no KML spelling of.                                *)
LaterOnly == {
  "AnimatedUpdate", "FlyTo", "LatLonQuad", "MultiTrack", "Playlist", "SimpleArrayData",
  "SimpleArrayField", "SoundCue", "Tour", "TourControl", "Track", "Wait", "altitudeOffset",
  "angles", "balloonVisibility", "coord", "delayedStart", "duration", "flyToMode",
  "horizFov", "interpolate", "playMode", "seaFloorAltitudeMode"}

In22(el) == el \in KmlElements \ LaterOnly

-----------------------------------------------------------------------------
Features22 == (FeatureGroup \ {"Tour"}) \cup {"gx:Tour"}
Geometries22 == (GeometryGroup \ {"MultiTrack", "Track"}) \cup {"gx:MultiTrack", "gx:Track"}
Modes22 == {"altitudeMode", "gx:altitudeMode"}

(* Every feature's children begin alike.                                   *)
FeatureOrder22 ==
  <<{"name"}, {"visibility"}, {"open"}, {"atom:author"}, {"atom:link"}, {"address"},
  {"xal:AddressDetails"}, {"phoneNumber"}, {"Snippet", "snippet"}, {"description"},
  ViewGroup, TimeGroup, {"styleUrl"}, StyleGroup, {"Region"}, {"Metadata", "ExtendedData"},
  {"gx:balloonVisibility", "gx:rank"}>>

(* The order of 2.2, slot by slot.                                         *)
OrderAToF(parent) ==
  CASE parent = "Alias" -> <<{"targetHref"}, {"sourceHref"}>>
    [] parent = "gx:AnimatedUpdate" -> <<{"gx:duration"}, {"Update"}, {"gx:delayedStart"}>>
    [] parent = "BalloonStyle" -> <<{"color", "bgColor"}, {"textColor"}, {"text"},
          {"displayMode"}>>
    [] parent = "Camera" -> <<{"gx:horizFov"}, {"gx:TimeStamp", "gx:TimeSpan",
          "gx:ViewerOptions"}, {"longitude"}, {"latitude"}, {"altitude"}, {"heading"}, {"tilt"},
          {"roll"}, Modes22>>
    [] parent = "Change" -> <<Features22 \cup Geometries22 \cup ViewGroup \cup TimeGroup \cup
          StyleGroup \cup {"gx:TimeStamp", "gx:TimeSpan", "SchemaData", "Data", "Region",
          "LatLonAltBox", "Lod", "Icon", "Link", "Url", "Location", "Orientation", "Scale",
          "ResourceMap", "Alias", "gx:LatLonQuad", "LatLonBox", "ViewVolume", "ImagePyramid",
          "Pair", "IconStyle", "LabelStyle", "LineStyle", "PolyStyle", "BalloonStyle",
          "ListStyle", "ItemIcon", "gx:AnimatedUpdate", "gx:FlyTo", "gx:SoundCue",
          "gx:TourControl", "gx:Wait", "gx:Playlist", "gx:ViewerOptions"}>>
    [] parent = "Create" -> <<{"Document", "Folder"}>>
    [] parent = "Data" -> <<{"displayName"}, {"value"}>>
    [] parent = "Delete" -> <<Features22>>
    [] parent = "Document" -> FeatureOrder22 \o <<{"Schema"}, Features22>>
    [] parent = "ExtendedData" -> <<{"Data"}, {"SchemaData"}>>
    [] parent = "gx:FlyTo" -> <<{"gx:duration"}, {"gx:flyToMode"}, ViewGroup>>
    [] OTHER -> <<>>

OrderFToL(parent) ==
  CASE parent = "Folder" -> FeatureOrder22 \o <<Features22>>
    [] parent = "GroundOverlay" -> FeatureOrder22 \o <<{"color"}, {"drawOrder"}, {"Icon"},
          {"altitude"}, Modes22, {"LatLonBox"}, {"gx:LatLonQuad"}>>
    [] parent = "Icon" -> <<{"href"}, {"gx:x", "gx:y", "gx:w", "gx:h"}, {"refreshMode"},
          {"refreshInterval"}, {"viewRefreshMode"}, {"viewRefreshTime"}, {"viewBoundScale"},
          {"viewFormat"}, {"httpQuery"}>>
    [] parent = "IconStyle" -> <<{"color"}, {"colorMode"}, {"gx:labelVisibility"}, {"scale"},
          {"heading"}, {"Icon"}, {"hotSpot"}>>
    [] parent = "ImagePyramid" -> <<{"tileSize"}, {"maxWidth"}, {"maxHeight"}, {"gridOrigin"}>>
    [] parent = "innerBoundaryIs" -> <<{"LinearRing"}>>
    [] parent = "ItemIcon" -> <<{"state"}, {"href"}>>
    [] parent = "kml" -> <<{"NetworkLinkControl"}, Features22>>
    [] parent = "LabelStyle" -> <<{"color"}, {"colorMode"}, {"gx:labelVisibility"}, {"scale"}>>
    [] parent = "LatLonAltBox" -> <<{"north"}, {"south"}, {"east"}, {"west"}, {"minAltitude"},
          {"maxAltitude"}, Modes22>>
    [] parent = "LatLonBox" -> <<{"north"}, {"south"}, {"east"}, {"west"}, {"rotation"}>>
    [] parent = "gx:LatLonQuad" -> <<{"coordinates"}>>
    [] parent \in {"LineString", "LinearRing"} -> <<{"gx:altitudeOffset", "gx:drawOrder"},
          {"extrude"}, {"tessellate"}, Modes22, {"coordinates"}>>
    [] parent = "LineStyle" -> <<{"color"}, {"colorMode"}, {"gx:labelVisibility"}, {"width"},
          {"gx:outerColor", "gx:outerWidth", "gx:physicalWidth"}>>
    [] OTHER -> <<>>

OrderLToP(parent) ==
  CASE parent = "Link" -> <<{"href"}, {"gx:x", "gx:y", "gx:w", "gx:h"}, {"refreshMode"},
          {"refreshInterval"}, {"viewRefreshMode"}, {"viewRefreshTime"}, {"viewBoundScale"},
          {"viewFormat"}, {"httpQuery"}>>
    [] parent = "ListStyle" -> <<{"listItemType"}, {"bgColor"}, {"ItemIcon"},
          {"maxSnippetLines"}>>
    [] parent = "Location" -> <<{"longitude"}, {"latitude"}, {"altitude"}>>
    [] parent = "Lod" -> <<{"minLodPixels"}, {"maxLodPixels"}, {"minFadeExtent"},
          {"maxFadeExtent"}>>
    [] parent = "LookAt" -> <<{"gx:horizFov"}, {"gx:TimeStamp", "gx:TimeSpan",
          "gx:ViewerOptions"}, {"longitude"}, {"latitude"}, {"altitude"}, {"heading"}, {"tilt"},
          {"range"}, Modes22>>
    [] parent = "Model" -> <<{"gx:altitudeOffset", "gx:drawOrder"}, Modes22, {"Location"},
          {"Orientation"}, {"Scale"}, {"Link"}, {"ResourceMap"}>>
    [] parent = "MultiGeometry" -> <<{"gx:altitudeOffset", "gx:drawOrder"}, Geometries22>>
    [] parent = "gx:MultiTrack" -> <<{"gx:altitudeOffset", "gx:drawOrder"}, Modes22,
          {"gx:interpolate"}, {"gx:Track"}>>
    [] parent = "NetworkLink" -> FeatureOrder22 \o <<{"refreshVisibility"}, {"flyToView"},
          {"Url", "Link"}>>
    [] parent = "NetworkLinkControl" -> <<{"minRefreshPeriod"}, {"maxSessionLength"},
          {"cookie"}, {"message"}, {"linkName"}, {"linkDescription"}, {"linkSnippet"},
          {"expires"}, {"Update"}, ViewGroup>>
    [] parent = "Orientation" -> <<{"heading"}, {"tilt"}, {"roll"}>>
    [] parent = "outerBoundaryIs" -> <<{"LinearRing"}>>
    [] parent = "Pair" -> <<{"key"}, {"styleUrl"}, StyleGroup>>
    [] parent = "PhotoOverlay" -> FeatureOrder22 \o <<{"color"}, {"drawOrder"}, {"Icon"},
          {"rotation"}, {"ViewVolume"}, {"ImagePyramid"}, {"Point"}, {"shape"}>>
    [] OTHER -> <<>>

OrderPToT(parent) ==
  CASE parent = "Placemark" -> FeatureOrder22 \o <<Geometries22>>
    [] parent = "gx:Playlist" -> <<{"gx:AnimatedUpdate", "gx:FlyTo", "gx:SoundCue",
          "gx:TourControl", "gx:Wait"}>>
    [] parent = "Point" -> <<{"gx:altitudeOffset", "gx:drawOrder"}, {"extrude"}, Modes22,
          {"coordinates"}>>
    [] parent = "PolyStyle" -> <<{"color"}, {"colorMode"}, {"gx:labelVisibility"}, {"fill"},
          {"outline"}>>
    [] parent = "Polygon" -> <<{"gx:altitudeOffset", "gx:drawOrder"}, {"extrude"},
          {"tessellate"}, Modes22, {"outerBoundaryIs"}, {"innerBoundaryIs"}>>
    [] parent = "Region" -> <<{"LatLonAltBox"}, {"Lod"}>>
    [] parent = "ResourceMap" -> <<{"Alias"}>>
    [] parent = "Scale" -> <<{"x"}, {"y"}, {"z"}>>
    [] parent = "Schema" -> <<{"SimpleField"}, {"gx:SimpleArrayField"}>>
    [] parent = "SchemaData" -> <<{"SimpleData"}, {"gx:SimpleArrayData"}>>
    [] parent = "ScreenOverlay" -> FeatureOrder22 \o <<{"color"}, {"drawOrder"}, {"Icon"},
          {"overlayXY"}, {"screenXY"}, {"rotationXY"}, {"size"}, {"rotation"}>>
    [] parent = "gx:SimpleArrayData" -> <<{"gx:value"}>>
    [] parent \in {"gx:SimpleArrayField", "SimpleField"} -> <<{"displayName"}>>
    [] parent = "gx:SoundCue" -> <<{"href"}, {"gx:delayedStart"}>>
    [] parent = "Style" -> <<{"IconStyle"}, {"LabelStyle"}, {"LineStyle"}, {"PolyStyle"},
          {"BalloonStyle"}, {"ListStyle"}>>
    [] parent = "StyleMap" -> <<{"Pair"}>>
    [] parent \in {"gx:TimeSpan", "TimeSpan"} -> <<{"begin"}, {"end"}>>
    [] parent \in {"gx:TimeStamp", "TimeStamp"} -> <<{"when"}>>
    [] OTHER -> <<>>

OrderGx(parent) ==
  CASE parent = "gx:Tour" -> FeatureOrder22 \o <<{"gx:Playlist"}>>
    [] parent = "gx:TourControl" -> <<{"gx:playMode"}>>
    [] parent = "gx:Track" -> <<{"gx:altitudeOffset", "gx:drawOrder"}, {"extrude"},
          {"tessellate"}, Modes22, {"when"}, {"gx:coord"}, {"gx:angles"}, {"Model"},
          {"ExtendedData"}>>
    [] parent = "Update" -> <<{"targetHref"}, {"Create", "Delete", "Change"}>>
    [] parent = "Url" -> <<{"href"}, {"gx:x", "gx:y", "gx:w", "gx:h"}, {"refreshMode"},
          {"refreshInterval"}, {"viewRefreshMode"}, {"viewRefreshTime"}, {"viewBoundScale"},
          {"viewFormat"}, {"httpQuery"}>>
    [] parent = "ViewVolume" -> <<{"leftFov"}, {"rightFov"}, {"bottomFov"}, {"topFov"},
          {"near"}>>
    [] parent = "gx:Wait" -> <<{"gx:duration"}>>
    [] OTHER -> <<>>

Order22(parent) ==
  OrderAToF(parent) \o OrderFToL(parent) \o OrderLToP(parent) \o OrderPToT(parent)
    \o OrderGx(parent)

(* The same by parent, gx: ones by their prefixed names.                   *)
Slots22 == [parent \in KmlElements \cup {"gx:" \o n : n \in DOMAIN GxAdopted} |-> Order22(parent)]

-----------------------------------------------------------------------------
Modes == {"altitudeMode", "seaFloorAltitudeMode"}

FeatureMembers ==
  ViewGroup \cup TimeGroup \cup StyleGroup \cup {"name", "visibility", "balloonVisibility",
  "open", "address", "phoneNumber", "snippet", "Snippet", "description", "styleUrl",
  "Region", "Metadata", "ExtendedData"}

(* The children of 2.3.                                                    *)
ChildrenAToE(parent) ==
  CASE parent = "Alias" -> {"targetHref", "sourceHref"}
    [] parent = "AnimatedUpdate" -> {"duration", "Update", "delayedStart"}
    [] parent = "BalloonStyle" -> {"bgColor", "color", "textColor", "text", "displayMode"}
    [] parent = "Camera" -> TimeGroup \cup Modes \cup {"longitude", "latitude", "altitude",
          "heading", "tilt", "roll", "horizFov"}
    [] parent = "Change" -> ViewGroup \cup TimeGroup \cup StyleGroup \cup FeatureGroup \cup
          GeometryGroup \cup {"Link", "Url", "SchemaData", "Data", "Region", "Lod", "Icon",
          "Location", "Orientation", "Scale", "ResourceMap", "Alias", "LatLonQuad",
          "LatLonAltBox", "LatLonBox", "ViewVolume", "ImagePyramid", "Pair", "IconStyle",
          "LabelStyle", "LineStyle", "PolyStyle", "BalloonStyle", "ListStyle", "ItemIcon",
          "AnimatedUpdate", "FlyTo", "SoundCue", "TourControl", "Wait", "Playlist"}
    [] parent = "Create" -> {"Document", "Folder", "MultiTrack", "MultiGeometry"}
    [] parent = "Data" -> {"displayName", "value"}
    [] parent = "Delete" -> FeatureGroup \cup GeometryGroup
    [] parent = "Document" -> FeatureMembers \cup FeatureGroup \cup {"Schema"}
    [] parent = "ExtendedData" -> {"Data", "SchemaData"}
    [] OTHER -> {}

ChildrenFToL(parent) ==
  CASE parent = "FlyTo" -> ViewGroup \cup {"duration", "flyToMode"}
    [] parent = "Folder" -> FeatureMembers \cup FeatureGroup
    [] parent = "GroundOverlay" -> FeatureMembers \cup Modes \cup {"color", "drawOrder", "Icon",
          "altitude", "LatLonQuad", "LatLonAltBox", "LatLonBox"}
    [] parent = "Icon" -> {"href", "refreshMode", "refreshInterval", "viewRefreshMode",
          "viewRefreshTime", "viewBoundScale", "viewFormat", "httpQuery"}
    [] parent = "IconStyle" -> {"color", "colorMode", "scale", "heading", "Icon", "hotSpot"}
    [] parent = "ImagePyramid" -> {"tileSize", "maxWidth", "maxHeight", "gridOrigin"}
    [] parent = "innerBoundaryIs" -> {"LinearRing"}
    [] parent = "ItemIcon" -> {"state", "href"}
    [] parent = "kml" -> FeatureGroup \cup {"NetworkLinkControl"}
    [] parent = "LabelStyle" -> {"color", "colorMode", "scale"}
    [] parent = "LatLonAltBox" -> Modes \cup {"north", "south", "east", "west", "minAltitude",
          "maxAltitude"}
    [] parent = "LatLonBox" -> {"north", "south", "east", "west", "rotation"}
    [] parent = "LatLonQuad" -> {"coordinates"}
    [] parent = "LineString" -> Modes \cup {"extrude", "tessellate", "coordinates",
          "altitudeOffset"}
    [] parent = "LineStyle" -> {"color", "colorMode", "width"}
    [] OTHER -> {}

ChildrenLToP(parent) ==
  CASE parent = "LinearRing" -> Modes \cup {"extrude", "tessellate", "coordinates",
          "altitudeOffset"}
    [] parent = "Link" -> {"href", "refreshMode", "refreshInterval", "viewRefreshMode",
          "viewRefreshTime", "viewBoundScale", "viewFormat", "httpQuery"}
    [] parent = "ListStyle" -> {"listItemType", "bgColor", "ItemIcon", "maxSnippetLines"}
    [] parent = "Location" -> {"longitude", "latitude", "altitude"}
    [] parent = "Lod" -> {"minLodPixels", "maxLodPixels", "minFadeExtent", "maxFadeExtent"}
    [] parent = "LookAt" -> TimeGroup \cup Modes \cup {"longitude", "latitude", "altitude",
          "heading", "tilt", "range", "horizFov"}
    [] parent = "Model" -> Modes \cup {"Location", "Orientation", "Scale", "Link",
          "ResourceMap"}
    [] parent = "MultiGeometry" -> GeometryGroup
    [] parent = "MultiTrack" -> Modes \cup {"interpolate", "Track"}
    [] parent = "NetworkLink" -> FeatureMembers \cup {"refreshVisibility", "flyToView", "Link",
          "Url"}
    [] parent = "NetworkLinkControl" -> ViewGroup \cup {"minRefreshPeriod", "maxSessionLength",
          "cookie", "message", "linkName", "linkDescription", "linkSnippet", "expires",
          "Update"}
    [] parent = "Orientation" -> {"heading", "tilt", "roll"}
    [] parent = "outerBoundaryIs" -> {"LinearRing"}
    [] parent = "Pair" -> StyleGroup \cup {"key", "styleUrl"}
    [] OTHER -> {}

ChildrenPToS(parent) ==
  CASE parent = "PhotoOverlay" -> FeatureMembers \cup {"color", "drawOrder", "Icon", "rotation",
          "ViewVolume", "ImagePyramid", "Point", "shape"}
    [] parent = "Placemark" -> FeatureMembers \cup GeometryGroup
    [] parent = "Playlist" -> {"AnimatedUpdate", "FlyTo", "SoundCue", "TourControl", "Wait"}
    [] parent = "Point" -> Modes \cup {"extrude", "coordinates"}
    [] parent = "PolyStyle" -> {"color", "colorMode", "fill", "outline"}
    [] parent = "Polygon" -> Modes \cup {"extrude", "tessellate", "outerBoundaryIs",
          "innerBoundaryIs"}
    [] parent = "Region" -> {"LatLonQuad", "LatLonAltBox", "LatLonBox", "Lod"}
    [] parent = "ResourceMap" -> {"Alias"}
    [] parent = "Scale" -> {"x", "y", "z"}
    [] parent = "Schema" -> {"SimpleField", "SimpleArrayField"}
    [] parent = "SchemaData" -> {"SimpleData", "SimpleArrayData"}
    [] parent = "ScreenOverlay" -> FeatureMembers \cup {"color", "drawOrder", "Icon",
          "overlayXY", "screenXY", "rotationXY", "size", "rotation"}
    [] parent = "SimpleArrayData" -> {"value"}
    [] parent \in {"SimpleArrayField", "SimpleField"} -> {"displayName"}
    [] parent = "SoundCue" -> {"href", "delayedStart"}
    [] OTHER -> {}

ChildrenSToW(parent) ==
  CASE parent = "Style" -> {"IconStyle", "LabelStyle", "LineStyle", "PolyStyle", "BalloonStyle",
          "ListStyle"}
    [] parent = "StyleMap" -> {"Pair"}
    [] parent = "TimeSpan" -> {"begin", "end"}
    [] parent = "TimeStamp" -> {"when"}
    [] parent = "Tour" -> FeatureMembers \cup {"Playlist"}
    [] parent = "TourControl" -> {"playMode"}
    [] parent = "Track" -> Modes \cup {"extrude", "tessellate", "when", "coord", "angles",
          "Model", "ExtendedData"}
    [] parent = "Update" -> {"targetHref", "Create", "Delete", "Change"}
    [] parent = "Url" -> {"href", "refreshMode", "refreshInterval", "viewRefreshMode",
          "viewRefreshTime", "viewBoundScale", "viewFormat", "httpQuery"}
    [] parent = "ViewVolume" -> {"leftFov", "rightFov", "bottomFov", "topFov", "near"}
    [] parent = "Wait" -> {"duration"}
    [] OTHER -> {}

Children23(parent) ==
  ChildrenAToE(parent) \cup ChildrenFToL(parent) \cup ChildrenLToP(parent)
    \cup ChildrenPToS(parent) \cup ChildrenSToW(parent)

Members23 == [parent \in KmlElements |-> Children23(parent)]
=============================================================================
