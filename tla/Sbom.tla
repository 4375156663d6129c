-------------------------------- MODULE Sbom --------------------------------
(***************************************************************************)
(* aaf-identity's bill of materials and its two exports.  An entry is      *)
(* [kind, name, version, hash, locator]; the texts of the documents are    *)
(* left out, their ids are not.                                            *)
(***************************************************************************)
EXTENDS Naturals, Sequences

CONSTANTS
    Slug,          \* Slug[name]: the name with foreign characters replaced
    NoLocator

\* parse_sbom_kind: what it does not know is Other.
ParseKind(text) ==
    IF text \in {"Model", "Prompt", "Tool", "Ontology", "EvalSuite", "TrainingData"}
    THEN text ELSE "Other"

\* AgentSbom::push of an entry as export-sbom reads it.
PushEntry(sbom, e) == Append(sbom, [e EXCEPT !.kind = ParseKind(@)])

\* cyclonedx_type_for.
CycloneType(kind) ==
    CASE kind = "Model" -> "machine-learning-model"
      [] kind = "Tool" -> "application"
      [] kind = "Other" -> "library"
      [] OTHER -> "data"

\* spdx_id and bom_ref: the index, counted from 0, keeps equal slugs apart.
RefOf(sbom, i) == <<i - 1, Slug[sbom[i].name]>>

\* to_spdx: the kind is computed and dropped.
ToSpdx(sbom) ==
    [i \in DOMAIN sbom |->
        [id |-> RefOf(sbom, i), name |-> sbom[i].name, version |-> sbom[i].version,
         checksum |-> sbom[i].hash,
         location |-> IF sbom[i].locator = NoLocator THEN "NOASSERTION" ELSE sbom[i].locator]]

\* to_cyclonedx: the locator is dropped.
ToCycloneDx(sbom) ==
    [i \in DOMAIN sbom |->
        [id |-> RefOf(sbom, i), type |-> CycloneType(sbom[i].kind), name |-> sbom[i].name,
         version |-> sbom[i].version, checksum |-> sbom[i].hash]]
=============================================================================
