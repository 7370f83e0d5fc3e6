--------------------------- MODULE ScriptFixtures ---------------------------
(***************************************************************************)
(* The requests of specification/script.js, group by group, in the order  *)
(* of the default function, as ScriptRunner records: the group, the       *)
(* method, and whether the check() has the "Is response body status 200" *)
(* entry (every group but the HEAD one).                                  *)
(***************************************************************************)
EXTENDS Sequences

Rq(g, m, bodyCheck) == [g |-> g, m |-> m, bodyCheck |-> bodyCheck]

DeepObject == << Rq("/serialization/query/deepObject", "GET", TRUE) >>
StringDataFormats == << Rq("/string_data_formats", "POST", TRUE) >>
ObjectDataFormats == << Rq("/object_data_formats", "POST", TRUE) >>
PathMatrix == << Rq("/serialization/path/matrix", "TRACE", TRUE) >>
PathSimple == << Rq("/serialization/path/simple", "OPTIONS", TRUE) >>
AllParams == << Rq("/all_params", "PUT", TRUE) >>
NoParams == << Rq("/no_params", "GET", TRUE) >>
CommonPathParameters == << Rq("/common/path/parameters", "GET", TRUE), Rq("/common/path/parameters", "PATCH", TRUE) >>
QuerySpaceDelimited == << Rq("/serialization/query/spaceDelimited", "GET", TRUE) >>
AllOfDataFormats == << Rq("/allOf_data_formats", "POST", TRUE) >>
QueryForm == << Rq("/serialization/query/form", "GET", TRUE) >>
User == << Rq("/api/v3/user", "POST", TRUE) >>
NoPathParams == << Rq("/no_path_params", "GET", TRUE) >>
Image == << Rq("/image", "GET", TRUE) >>
SerializationHeader == << Rq("/serialization/header", "GET", TRUE) >>
QueryPipeDelimited == << Rq("/serialization/query/pipeDelimited", "GET", TRUE) >>
CookiesSet == << Rq("/cookies/set", "GET", TRUE) >>
IntegerBoundaries == << Rq("/test_integer_boundaries", "GET", TRUE) >>
Cache == << Rq("/cache", "GET", TRUE) >>
PathLabel == << Rq("/serialization/path/label", "HEAD", FALSE) >>
OneOfDataFormats == << Rq("/oneOf_data_formats", "POST", TRUE) >>
RedirectTo == << Rq("/redirect-to", "GET", TRUE) >>
TestQueryParams == << Rq("/test_query_params", "GET", TRUE) >>
Pet == << Rq("/api/v3/pet", "POST", TRUE) >>
PetId == << Rq("/api/v3/pet/{petId}", "DELETE", TRUE) >>
NoPathParamsParam == << Rq("/no_path_params/{param}", "GET", TRUE) >>
AnyOfDataFormats == << Rq("/anyOf_data_formats", "POST", TRUE) >>
SerializationCookie == << Rq("/serialization/cookie", "GET", TRUE) >>
PathParameters == << Rq("/path_parameters", "GET", TRUE) >>
CookieParams == << Rq("/cookie_params", "GET", TRUE) >>
ContentTypeSuffix == << Rq("/content-type-suffix", "POST", TRUE) >>

\* The default function runs the groups in this order.
Script == DeepObject \o StringDataFormats \o ObjectDataFormats \o
    PathMatrix \o PathSimple \o AllParams \o NoParams \o
    CommonPathParameters \o QuerySpaceDelimited \o AllOfDataFormats \o
    QueryForm \o User \o NoPathParams \o Image \o SerializationHeader \o
    QueryPipeDelimited \o CookiesSet \o IntegerBoundaries \o Cache \o
    PathLabel \o OneOfDataFormats \o RedirectTo \o TestQueryParams \o
    Pet \o PetId \o NoPathParamsParam \o AnyOfDataFormats \o
    SerializationCookie \o PathParameters \o CookieParams \o
    ContentTypeSuffix

=============================================================================
