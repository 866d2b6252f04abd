---------------------------- MODULE TemplateStack ----------------------------
(***************************************************************************)
(* How src/.specify/scripts/python/common.py finds the text of a template: *)
(* an override of the project, the presets in the order of their priority, *)
(* the extensions, and the template of the core.  A preset may replace     *)
(* what lies below it or be put before, after or around it.                *)
(*                                                                         *)
(* A stack is what lies on the disk for one template name.  The names of   *)
(* presets and extensions are numbers in the order of the alphabet.  A     *)
(* text is the sequence of the layers it was composed of; a layer that     *)
(* wraps stands on both sides of what it wraps.                            *)
(***************************************************************************)
EXTENDS Naturals, Sequences, SequencesExt

Registries == {"valid", "malformed", "absent"}

Strategies == {"replace", "prepend", "append", "wrap"}

\* A preset: dir: its directory exists; enabled and priority: what the registry
\* says of it; manifest: no preset.yml, one that breaks the contract, one that
\* does not name the template, or one that does; file: the file the manifest
\* names is there and inside the preset; conventional: the file is there under
\* the name of the template; placeholder: the text has {CORE_TEMPLATE}.
PresetRecords ==
  [dir : BOOLEAN, registered : BOOLEAN, enabled : BOOLEAN, priority : Nat,
   manifest : {"none", "invalid", "silent", "names"}, strategy : Strategies,
   file : BOOLEAN, conventional : BOOLEAN, placeholder : BOOLEAN]

ExtensionRecords ==
  [dir : BOOLEAN, registered : BOOLEAN, enabled : BOOLEAN, priority : Nat,
   conventional : BOOLEAN]

StackRecords ==
  [override : BOOLEAN, yaml : BOOLEAN, core : BOOLEAN,
   presetRegistry : Registries, presets : Seq(PresetRecords),
   extensionRegistry : Registries, extensions : Seq(ExtensionRecords)]

\* The results: a text, no template at all, or TemplateResolutionError.
Text(t) == [kind |-> "text", text |-> t]
NoTemplate == [kind |-> "none", text |-> <<>>]
Failure == [kind |-> "error", text |-> <<>>]

(***************************************************************************)
(* The order of presets and of extensions.                                 *)
(***************************************************************************)

\* _normalize_priority: zero stands for whatever is no positive number.
NormalPriority(p) == IF p >= 1 THEN p ELSE 10

\* Smaller priorities first, and names among equals.
Before(prio(_), a, b) ==
  prio(a) < prio(b) \/ (prio(a) = prio(b) /\ a < b)

\* The members of S in their order.
InOrder(S, before(_, _)) ==
  CHOOSE f \in [1..Cardinality(S) -> S] :
    \A i, j \in DOMAIN f : i < j => before(f[i], f[j])

\* The first of a sequence that passes the test, as a set of at most one.
FirstOf(order, Test(_)) ==
  LET found == {i \in DOMAIN order : Test(order[i])}
  IN IF found = {} THEN {} ELSE {order[Min(found)]}

\* Mutant: priorities are not looked at.
SortedPresetIdsByName(s) ==
  InOrder({p \in DOMAIN s.presets : s.presets[p].dir \/ s.presets[p].registered},
          LAMBDA a, b : a < b)

\* With a registry, what it lists and has not disabled; without a valid one,
\* every directory by its name, disabled ones too.
SortedPresetIds(s) ==
  LET prio(p) == NormalPriority(s.presets[p].priority)
      listed == {p \in DOMAIN s.presets :
                   s.presets[p].registered /\ s.presets[p].enabled}
      found == {p \in DOMAIN s.presets : s.presets[p].dir}
  IN IF s.presetRegistry = "valid"
     THEN InOrder(listed, LAMBDA a, b : Before(prio, a, b))
     ELSE InOrder(found, LAMBDA a, b : a < b)

\* Extensions no registry speaks of are found by their directory and rank with
\* the default priority.  A malformed registry is an error.
SortedExtensionIds(s) ==
  LET known(e) == s.extensionRegistry = "valid" /\ s.extensions[e].registered
      prio(e) == IF known(e) THEN NormalPriority(s.extensions[e].priority) ELSE 10
      ranked == {e \in DOMAIN s.extensions :
                   IF known(e) THEN s.extensions[e].enabled ELSE s.extensions[e].dir}
  IN InOrder(ranked, LAMBDA a, b : Before(prio, a, b))

ExtensionsFail(s) == s.extensionRegistry = "malformed"

\* _conventional_template.
Conventional(x) == x.dir /\ x.conventional

(***************************************************************************)
(* Layers.                                                                 *)
(***************************************************************************)

Layer(id, strategy, placeholder) ==
  [is |-> "layer", id |-> id, strategy |-> strategy, placeholder |-> placeholder]
NoLayer == [Layer(<<>>, "none", FALSE) EXCEPT !.is = "nothing"]
BadLayer == [NoLayer EXCEPT !.is = "error"]

Replacing(id) == Layer(id, "replace", FALSE)

\* _preset_template_layer: a manifest decides alone when it names the template,
\* also when the file it names is not there.  Without PyYAML no manifest can be
\* read.
PresetLayer(s, p) ==
  LET preset == s.presets[p]
      there == preset.dir /\ preset.manifest # "none"
  IN IF there /\ (~s.yaml \/ preset.manifest = "invalid") THEN BadLayer
     ELSE IF there /\ preset.manifest = "names"
     THEN IF preset.file
          THEN Layer(<<"preset", p>>, preset.strategy, preset.placeholder)
          ELSE NoLayer
     ELSE IF Conventional(preset) THEN Replacing(<<"preset", p>>) ELSE NoLayer

FirstExtension(s) ==
  LET first == FirstOf(SortedExtensionIds(s), LAMBDA e : Conventional(s.extensions[e]))
  IN IF first = {} THEN NoLayer ELSE Replacing(<<"extension", CHOOSE e \in first : TRUE>>)

\* The layers below the presets, looked at only when no preset replaces.
Floor(s) ==
  IF ExtensionsFail(s) THEN BadLayer
  ELSE IF FirstExtension(s).is = "layer" THEN FirstExtension(s)
  ELSE IF s.core THEN Replacing(<<"core">>) ELSE NoLayer

\* A layer that ends the search: one that replaces, or one that cannot be read.
Ends(layer) ==
  layer.is = "error" \/ (layer.is = "layer" /\ layer.strategy = "replace")

\* The layers of the presets in their order, up to the first that ends the
\* search; a preset that has nothing for the template stands for no layer.
PresetLayers(s) ==
  LET order == SortedPresetIds(s)
      ending == {i \in DOMAIN order : Ends(PresetLayer(s, order[i]))}
      upTo == IF ending = {} THEN Len(order) ELSE Min(ending)
  IN [i \in 1..upTo |-> PresetLayer(s, order[i])]

(***************************************************************************)
(* Composition.                                                            *)
(***************************************************************************)

\* One layer put on the text of those below it.
Put(below, layer) ==
  IF below.kind = "error" \/ layer.is = "nothing" THEN below
  ELSE CASE layer.strategy = "prepend" -> Text(<<layer.id>> \o below.text)
         [] layer.strategy = "append" -> Text(below.text \o <<layer.id>>)
         [] layer.strategy = "wrap" ->
              IF layer.placeholder
              THEN Text(<<layer.id>> \o below.text \o <<layer.id>>) ELSE Failure

\* compose_from_base: from the last layer, which replaces, up to the first.
Compose(layers) ==
  LET from[i \in DOMAIN layers] ==
        IF i = Len(layers) THEN Text(<<layers[i].id>>) ELSE Put(from[i + 1], layers[i])
  IN from[1]

\* resolve_template_content.
ResolveTemplateContent(s) ==
  LET presets == PresetLayers(s)
      floor == Floor(s)
  IN IF s.override THEN Text(<<<<"override">>>>)
     ELSE IF presets # <<>> /\ Last(presets).is = "error" THEN Failure
     ELSE IF presets # <<>> /\ Last(presets).strategy = "replace"
     THEN Compose(presets)
     ELSE IF floor.is = "error" THEN Failure
     ELSE IF floor.is = "layer" THEN Compose(Append(presets, floor))
     ELSE IF \A i \in DOMAIN presets : presets[i].is = "nothing"
     THEN NoTemplate ELSE Failure

\* resolve_template: the path of the first file found under the name of the
\* template, whatever the manifests say.
ResolveTemplate(s) ==
  LET first == FirstOf(SortedPresetIds(s), LAMBDA p : Conventional(s.presets[p]))
  IN IF s.override THEN Text(<<<<"override">>>>)
     ELSE IF first # {} THEN Text(<<<<"preset", CHOOSE p \in first : TRUE>>>>)
     ELSE CASE Floor(s).is = "error" -> Failure
            [] Floor(s).is = "layer" -> Text(<<Floor(s).id>>)
            [] Floor(s).is = "nothing" -> NoTemplate

(***************************************************************************)
(* What the order promises, said without walking it.                       *)
(***************************************************************************)

\* The presets that are in force.
InForce(s) ==
  {p \in DOMAIN s.presets :
     IF s.presetRegistry = "valid"
     THEN s.presets[p].registered /\ s.presets[p].enabled ELSE s.presets[p].dir}

\* Preset p stands above q.
Above(s, p, q) ==
  IF s.presetRegistry = "valid"
  THEN Before(LAMBDA x : NormalPriority(s.presets[x].priority), p, q)
  ELSE p < q

\* The presets whose layers are in the text: those with a layer and none above
\* them that replaces.
Composed(s) ==
  {p \in InForce(s) :
     /\ PresetLayer(s, p).is = "layer"
     /\ \A q \in InForce(s) :
          Above(s, q, p) => PresetLayer(s, q).strategy # "replace"}

\* Without a manifest that speaks of the template, the text is the one file
\* whose path is given out beside it; and a text that was composed holds the
\* layer of every preset in force above the first that replaces, once or, when
\* it wraps, around all that lies below it, a higher one always outside.
TemplatesResolve(s) ==
  LET strategy(p) == PresetLayer(s, p).strategy
      at(p, content) ==
        {i \in DOMAIN content.text : content.text[i] = <<"preset", p>>}
  IN \A content \in {ResolveTemplateContent(s)}, composed \in {Composed(s)} :
       /\ (\A p \in InForce(s) : s.presets[p].manifest \in {"none", "silent"}) /\ s.yaml
            => content = ResolveTemplate(s)
       /\ content.kind = "text" /\ ~s.override =>
            /\ \A p \in InForce(s) : p \in composed <=> at(p, content) # {}
            /\ \A p, q \in composed : Above(s, p, q) =>
                 \A j \in at(q, content) :
                   /\ strategy(p) \in {"prepend", "wrap"}
                        => \E i \in at(p, content) : i < j
                   /\ strategy(p) \in {"append", "wrap"}
                        => \E i \in at(p, content) : i > j
=============================================================================
