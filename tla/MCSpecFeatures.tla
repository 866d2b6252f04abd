--------------------------- MODULE MCSpecFeatures ---------------------------
(***************************************************************************)
(* Two names for features, numbers up to one, a handful of documents.      *)
(***************************************************************************)
EXTENDS SpecFeatures

Preset(registered, enabled, priority, manifest, strategy, file) ==
  [dir |-> TRUE, registered |-> registered, enabled |-> enabled,
   priority |-> priority, manifest |-> manifest, strategy |-> strategy,
   file |-> file, conventional |-> manifest # "names", placeholder |-> file]

Extension(registered, priority, conventional) ==
  [dir |-> TRUE, registered |-> registered, enabled |-> TRUE,
   priority |-> priority, conventional |-> conventional]

\* Two presets of every strategy in both orders, with and without a manifest,
\* over an extension or the core.
MCPresets ==
  {Preset(TRUE, enabled, 5, manifest, strategy, file) :
     enabled \in BOOLEAN, manifest \in {"silent", "names"}, strategy \in Strategies,
     file \in BOOLEAN}

Stack(override, yaml, registry, first, second, extensionRegistry, extension, core) ==
  [override |-> override, yaml |-> yaml, presetRegistry |-> registry,
   presets |-> <<first, second>>, extensionRegistry |-> extensionRegistry,
   extensions |-> <<Extension(TRUE, 20, TRUE), Extension(FALSE, 0, extension)>>,
   core |-> core]

MCSurveyed ==
  {Stack(FALSE, TRUE, registry, [first EXCEPT !.priority = p], second, "valid",
         extension, TRUE) :
     registry \in {"valid", "malformed"}, first \in MCPresets, second \in MCPresets,
     p \in {0, 5}, extension \in BOOLEAN}

Plain(kept) == Preset(TRUE, kept, 5, "silent", "replace", TRUE)

\* The project's own stack, one that cannot be composed, and one without the
\* template.
MCStacks ==
  LET addendum == Preset(TRUE, TRUE, 5, "names", "append", TRUE)
      none == [Plain(FALSE) EXCEPT !.conventional = FALSE]
      of(preset, core) == [Stack(FALSE, TRUE, "valid", preset, none, "valid", FALSE, core)
                           EXCEPT !.extensions[1].conventional = FALSE]
  IN {of(addendum, TRUE), of(addendum, FALSE), of(none, FALSE)}

Sentence(start, comma) ==
  [start |-> start, shalls |-> 1, modal |-> FALSE, subject |-> TRUE,
   response |-> TRUE, comma |-> comma, then |-> FALSE]

Requirement(id, sentence) == [id |-> id, sentence |-> sentence]

Doc(comma) ==
  [text |-> "readable", lines |-> <<Requirement("REQ-001", Sentence("when", comma))>>]

Mapped(ids, test) ==
  [file |-> "valid",
   entries |-> [r \in ids |-> [mode |-> "automated", tests |-> {test},
                               rationale |-> FALSE]]]

Test(exists) == [inRoot |-> TRUE, exists |-> exists]

\* A whole specification, one whose test is not there, one without a mapping,
\* and one with a requirement whose condition has no comma.
MCDocuments ==
  {[doc |-> Doc("before"), trace |-> Mapped({"REQ-001"}, Test(exists))] :
     exists \in BOOLEAN}
    \cup {[doc |-> Doc(comma), trace |-> NoTrace] : comma \in {"before", "none"}}

MCPolicies ==
  {[file |-> "valid", roots |-> TRUE, requireFiles |-> TRUE, testCommand |-> TRUE,
    production |-> [ids |-> {}, prose |-> {}]]}

MCEnvNames == {Numbered(1, s) : s \in ShortNames}

MCSymmetry == Permutations(ShortNames)
=============================================================================
