----------------------------- MODULE ToolSchemas -----------------------------
(***************************************************************************)
(* The evolution of a tool's schema (deprecation_protocol.py), as          *)
(* operators.  A schema is its parameters, those that are required, and    *)
(* the rules [old, new] that its migrator applies in their order; a call   *)
(* is its arguments.  Defaults are the tool's own, and a value is not told *)
(* from what a rule transforms it into.                                    *)
(***************************************************************************)
EXTENDS Functions, Sequences, SequencesExt

Dropping(arguments, param) == Restrict(arguments, DOMAIN arguments \ {param})

\* The old argument is popped first, and whatever the new one was is overwritten.
Moved(arguments, rule) ==
  LET popped == Dropping(arguments, rule.old)
  IN [p \in DOMAIN popped \cup {rule.new} |-> IF p = rule.new THEN arguments[rule.old] ELSE popped[p]]

adapt_arguments(schema, arguments) ==
  FoldLeft(LAMBDA adapted, rule : IF rule.old \in DOMAIN adapted THEN Moved(adapted, rule) ELSE adapted,
           arguments, schema.migrations)

\* Mutant of diff_schemas: a parameter that is renamed into is no drop either.
diff_schemas_blind(old, new) ==
  LET migrated == {new.migrations[i].old : i \in DOMAIN new.migrations}
      targets == {new.migrations[i].new : i \in DOMAIN new.migrations}
  IN {<<"dropped", p>> : p \in (old.parameters \ new.parameters) \ migrated}
     \cup {<<"required", p>> : p \in new.required \ (old.required \cup old.parameters \cup targets)}

\* What breaks callers of the old schema: a parameter that is dropped and not
\* migrated, and one that is required and was not there.
diff_schemas(old, new) ==
  LET migrated == {new.migrations[i].old : i \in DOMAIN new.migrations}
  IN {<<"dropped", p>> : p \in (old.parameters \ new.parameters) \ migrated}
     \cup {<<"required", p>> : p \in (new.required \ old.required) \ old.parameters}

Valid(schema, arguments) ==
  DOMAIN arguments \subseteq schema.parameters /\ schema.required \subseteq DOMAIN arguments
=============================================================================
