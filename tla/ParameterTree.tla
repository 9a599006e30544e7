---------------------------- MODULE ParameterTree ----------------------------
(***************************************************************************)
(* The nested dictionaries of the control software: the simulator's store  *)
(* (control_simulator.py), the adapter's tree of Parameter objects and the *)
(* dictionaries in their messages (tristan_control_adapter.py).            *)
(*                                                                         *)
(* A dictionary is a function from the paths of its leaves to their        *)
(* values; a path is the sequence of keys from the root.  The code walks   *)
(* both dictionaries key by key; here a step is stated for all the leaves  *)
(* at once.  Dictionaries without a leaf are not told from absent ones.    *)
(***************************************************************************)
EXTENDS Sequences, SequencesExt, Functions, TLC

(* store[key] where a walk meets a leaf that is no dictionary: the code      *)
(* indexes or searches a string or a number and raises.                      *)
Clashes(store, p) == \E q \in DOMAIN store : IsStrictPrefix(q, p)

(* apply_parameters: the leaves at or below an applied leaf are replaced,    *)
(* the others stay.                                                          *)
apply_parameters(store, params) ==
  LET kept == {q \in DOMAIN store : \A p \in DOMAIN params : ~IsPrefix(p, q)} IN
  [q \in DOMAIN params \cup kept |-> IF q \in DOMAIN params THEN params[q] ELSE store[q]]

(* read_parameters: everything at or below the requested leaves; a           *)
(* requested leaf that the store does not have raises.                       *)
Readable(store, request) == \A p \in request : \E q \in DOMAIN store : IsPrefix(p, q)
read_parameters(store, request) ==
  Restrict(store, {q \in DOMAIN store : \E p \in request : IsPrefix(p, q)})

(* uri_params_to_dictionary: the value at the end of the path, without the   *)
(* path's first item ("config").                                             *)
uri_params_to_dictionary(path, value) == [p \in {Tail(path)} |-> value]

(* create_config_request: every leaf of the adapter's tree, without values.  *)
create_config_request(params) == DOMAIN params

(* Parameter and its types: any value is kept, whatever the limits or the    *)
(* allowed values; no Parameter has a callback.                              *)
set_value(old, new) == IF old # new THEN new ELSE old

(* update_config: a Parameter takes the value of the leaf at its path; other *)
(* data (a dictionary for a Parameter, a leaf for a dictionary, an unknown   *)
(* path) is skipped.                                                         *)
update_config(params, data) ==
  [p \in DOMAIN params |-> IF p \in DOMAIN data THEN set_value(params[p], data[p]) ELSE params[p]]
=============================================================================
