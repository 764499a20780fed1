------------------------------ MODULE AllocTests ------------------------------
(***************************************************************************)
(* The tests of runtests.c that make allocations fail, with the suite      *)
(* make_suite() builds around them.  A test here is a record that says     *)
(* what it does with the parser and the allocator; FaultTests executes it. *)
(* The documents they parse matter only through the number of allocations  *)
(* the library needs for them, which the library decides.                  *)
(*                                                                         *)
(* "stages" are the calls of one attempt, in order:                        *)
(*   arm        the counter of the failing allocator is set                *)
(*   parse      the library is called; an error ends the attempt           *)
(*   must       the same, but an error fails the test                      *)
(*   refused    the same, but only an error lets the test go on            *)
(*   base       the same, but an error resets the parser                   *)
(*   create     an external parser is created for an entity                *)
(*   create_must  the same, but an error fails the test                    *)
(*   encode     its encoding is set; on an error it is freed               *)
(*   ext        it parses and is freed                                     *)
(*   ext_disarm the same, and the allocator works again                    *)
(*   fault      the same, but only an error lets the test go on            *)
(*   second     it is created and kept                                     *)
(*   parser     g_parser is created                                        *)
(*   external   an external parser is created and freed                    *)
(***************************************************************************)
EXTENDS Minicheck

CONSTANT MaxAttempts   \* bound: no loop is longer, no fixed number higher

ASSUME AttemptsAssumption == MaxAttempts \in Nat \ {0, 1}

Limit(n) == IF n > MaxAttempts THEN MaxAttempts ELSE n

(* for (i = 0; i < max; i++): let the allocation after the first i fail.   *)
Loop(counter, max) ==
  [kind |-> "loop", counter |-> counter, max |-> Limit(max), stages |-> <<"arm", "parse">>,
   recover |-> "recreate", disarm |-> "never", flags |-> FALSE, storage |-> FALSE]

Alloc(max)   == Loop("alloc", max)
Realloc(max) == Loop("realloc", max)

(* A parse with a handler for external entities.                           *)
Handled(t, handler) == [t EXCEPT !.stages = <<"arm", "parse">> \o handler \o <<"parse">>]

(* A loop around another call than a parse: nothing is created anew.       *)
Around(t, stage) == [t EXCEPT !.stages = <<"arm", stage>>, !.recover = "nothing"]

(* Evidence of the handlers that is compared after the loop.               *)
Flagged(t)   == [t EXCEPT !.flags = TRUE]
Recording(t) == [t EXCEPT !.storage = TRUE]

(* The allocator works again before, or after, the result is looked at.    *)
DisarmFirst(t) == [t EXCEPT !.disarm = "first"]
DisarmLast(t)  == [t EXCEPT !.disarm = "last"]

(* One attempt with a fixed number of allocations, which has to fail.      *)
Fixed(n, stages) ==
  [Alloc(n) EXCEPT !.kind = "fixed", !.stages = <<"arm">> \o stages, !.recover = "nothing"]

(* A test without failing allocations: it uses g_parser or no parser at    *)
(* all, forgets g_parser, creates it, or has a parser of its own.          *)
Plain(parser) == [Alloc(0) EXCEPT !.kind = "plain", !.stages = <<>>, !.recover = parser]

-------------------------------------------------------------------------------
(* Handlers for external entities, called while a document is parsed.      *)

external_entity_optioner == <<"create", "ext">>
external_entity_public   == <<"create", "ext">>
external_entity_alloc    == <<"create", "ext">>

(* Called for two entities.                                                *)
external_entity_dbl_handler_2 == <<"create", "ext", "create", "ext">>

external_entity_alloc_set_encoding == <<"create", "encode", "ext">>

(* The counter is set for the parse of the entity only.                    *)
external_entity_reallocator == <<"create_must", "arm", "must", "ext_disarm">>

external_entity_faulter == <<"create_must", "fault">>

(* A loop of its own around the creation.                                  *)
external_entity_duff_loader == DisarmLast(Around(Alloc(10), "external"))

(* Called for two entities.  The first call counts the allocations of a    *)
(* creation, the second lets the one after those and i more fail.          *)
external_entity_dbl_handler ==
  [DisarmLast(Around(Alloc(20), "second")) EXCEPT !.kind = "paired"]

external_entity_parser_create_alloc_fail_handler == DisarmLast(Fixed(3, <<"refused">>))

(* Miscellaneous tests.                                                    *)

test_misc_alloc_create_parser == Around(Alloc(10), "parser")
test_misc_alloc_create_parser_with_encoding == Around(Alloc(10), "parser")
test_misc_null_parser == Plain("keep")
test_misc_error_string == Plain("keep")
test_misc_features == Plain("forget")
test_misc_attribute_leak == [Plain("create") EXCEPT !.kind = "tracked"]
test_misc_utf16le == Plain("create")
test_misc_stop_during_end_handler_issue_240_1 == Plain("keep")
test_misc_stop_during_end_handler_issue_240_2 == Plain("keep")
test_misc_deny_internal_entity_closing_doctype_issue_317 == Plain("local")
test_misc_tag_mismatch_reset_leak == Plain("local")

(* Allocation tests.                                                       *)

test_alloc_parse_xdecl == Alloc(15)
test_alloc_parse_xdecl_2 == Alloc(20)
test_alloc_parse_pi == Alloc(15)
test_alloc_parse_pi_2 == Alloc(15)
test_alloc_parse_pi_3 == Alloc(20)
test_alloc_parse_comment == Alloc(15)
test_alloc_parse_comment_2 == Alloc(15)
test_alloc_create_external_parser == external_entity_duff_loader
test_alloc_run_external_parser == Alloc(15)
test_alloc_dtd_copy_default_atts == external_entity_dbl_handler
test_alloc_external_entity ==
  DisarmFirst(Handled(Alloc(50), external_entity_dbl_handler_2))
test_alloc_ext_entity_set_encoding ==
  Handled(Alloc(30), external_entity_alloc_set_encoding)
test_alloc_internal_entity == Alloc(20)
test_alloc_dtd_default_handling == Recording(Flagged(Alloc(25)))
test_alloc_explicit_encoding == Around(Alloc(5), "parse")
test_alloc_set_base == Around(Alloc(5), "parse")
test_alloc_realloc_buffer ==
  DisarmFirst([Realloc(10) EXCEPT !.stages = <<"arm", "must", "parse">>])
test_alloc_ext_entity_realloc_buffer ==
  [Realloc(10) EXCEPT !.stages = <<"parse">> \o external_entity_reallocator \o <<"parse">>]
test_alloc_realloc_many_attributes == Realloc(10)
test_alloc_public_entity_value == Flagged(Handled(Alloc(50), external_entity_public))
test_alloc_realloc_subst_public_entity_value ==
  Handled(Realloc(10), external_entity_public)
test_alloc_parse_public_doctype == Flagged(Alloc(25))
test_alloc_parse_public_doctype_long_name == Alloc(25)
test_alloc_set_foreign_dtd ==
  [Alloc(25) EXCEPT !.stages = <<"arm", "must", "parse">> \o external_entity_alloc \o <<"parse">>]
test_alloc_attribute_enum_value == Handled(Alloc(30), external_entity_alloc)
test_alloc_realloc_attribute_enum_value == Handled(Realloc(10), external_entity_alloc)
test_alloc_realloc_implied_attribute == Realloc(10)
test_alloc_realloc_default_attribute == Realloc(10)
test_alloc_notation == Flagged(Alloc(20))
test_alloc_public_notation == Flagged(Alloc(20))
test_alloc_system_notation == Flagged(Alloc(20))
test_alloc_nested_groups == Recording(Flagged(Alloc(20)))
test_alloc_realloc_nested_groups == Recording(Flagged(Realloc(10)))
test_alloc_large_group == Flagged(Alloc(50))
test_alloc_realloc_group_choice == Flagged(Realloc(10))
test_alloc_pi_in_epilog == Flagged(Alloc(15))
test_alloc_comment_in_epilog == Flagged(Alloc(15))
test_alloc_realloc_long_attribute_value == Realloc(10)
test_alloc_attribute_whitespace == Alloc(15)
test_alloc_attribute_predefined_entity == Alloc(15)
test_alloc_long_attr_default_with_char_ref == Alloc(20)
test_alloc_long_attr_value == Alloc(25)
test_alloc_nested_entities == Fixed(12, <<"must">> \o external_entity_faulter)
test_alloc_realloc_param_entity_newline == Handled(Realloc(5), external_entity_alloc)
test_alloc_realloc_ce_extends_pe == Handled(Realloc(5), external_entity_alloc)
test_alloc_realloc_attributes == Realloc(5)
test_alloc_long_doc_name == Alloc(20)
test_alloc_long_base ==
  [Alloc(25) EXCEPT !.stages = <<"arm", "base", "parse">> \o external_entity_alloc \o <<"parse">>]
test_alloc_long_public_id == Handled(Alloc(40), external_entity_alloc)
test_alloc_long_entity_value == Handled(Alloc(40), external_entity_alloc)
test_alloc_long_notation == Handled(Alloc(40), external_entity_optioner)
test_alloc_reset_after_external_entity_parser_create_fail ==
  external_entity_parser_create_alloc_fail_handler

(* Allocation tests with namespaces.                                       *)

test_nsalloc_xmlns == Alloc(30)
test_nsalloc_parse_buffer == DisarmFirst(Fixed(0, <<"refused">>))
test_nsalloc_long_prefix == Alloc(40)
test_nsalloc_long_uri == Alloc(40)
test_nsalloc_long_attr == Alloc(40)
test_nsalloc_long_attr_prefix == Alloc(40)
test_nsalloc_realloc_attributes == Realloc(10)
test_nsalloc_long_element == Alloc(30)
test_nsalloc_realloc_binding_uri == [Realloc(10) EXCEPT !.recover = "reset"]
test_nsalloc_realloc_long_prefix == Realloc(12)
test_nsalloc_realloc_longer_prefix == Realloc(12)
test_nsalloc_long_namespace == Alloc(40)
test_nsalloc_less_long_namespace == Alloc(40)
test_nsalloc_long_context == Handled(Alloc(70), external_entity_optioner)
context_realloc_test == Handled(Realloc(6), external_entity_optioner)
test_nsalloc_realloc_long_context == context_realloc_test
test_nsalloc_realloc_long_context_2 == context_realloc_test
test_nsalloc_realloc_long_context_3 == context_realloc_test
test_nsalloc_realloc_long_context_4 == context_realloc_test
test_nsalloc_realloc_long_context_5 == context_realloc_test
test_nsalloc_realloc_long_context_6 == context_realloc_test
test_nsalloc_realloc_long_context_7 == context_realloc_test
test_nsalloc_realloc_long_ge_name == Handled(Realloc(10), external_entity_optioner)
test_nsalloc_realloc_long_context_in_dtd ==
  Handled(Realloc(20), external_entity_optioner)
test_nsalloc_long_default_in_ext == Handled(Alloc(50), external_entity_optioner)
test_nsalloc_long_systemid_in_ext == Handled(Alloc(55), external_entity_optioner)
test_nsalloc_prefixed_element == Handled(Alloc(70), external_entity_optioner)

test_billion_laughs_attack_protection_api == Plain("local")
test_helper_unsigned_char_to_printable == Plain("keep")

(* The tests of the other two cases look alike from here: a parse with     *)
(* g_parser and checks of what comes out.                                  *)
any_other_test == Plain("keep")

-------------------------------------------------------------------------------
(* make_suite(): the test cases in the order they are added, each test     *)
(* with the first release it may be run with.                              *)

Always == <<0, 0, 0>>

tc_basic == TestCase("basic", "basic",
  Since(Always, <<any_other_test>>) \o
  Since(<<2, 1, 0>>, <<any_other_test>>) \o
  Since(<<2, 2, 1>>, <<any_other_test>>) \o
  Since(<<2, 2, 3>>, <<any_other_test>>))

tc_namespace == TestCase("basic", "basic", Since(Always, <<any_other_test>>))

tc_misc == TestCase("none", "basic",
  Since(Always, <<
    test_misc_alloc_create_parser,
    test_misc_alloc_create_parser_with_encoding,
    test_misc_null_parser,
    test_misc_error_string,
    test_misc_features>>) \o
  Since(<<2, 2, 1>>, <<test_misc_attribute_leak>>) \o
  Since(Always, <<
    test_misc_utf16le,
    test_misc_stop_during_end_handler_issue_240_1,
    test_misc_stop_during_end_handler_issue_240_2,
    test_misc_deny_internal_entity_closing_doctype_issue_317,
    test_misc_tag_mismatch_reset_leak>>))

tc_alloc == TestCase("alloc", "basic",
  Since(Always, <<
    test_alloc_parse_xdecl,
    test_alloc_parse_xdecl_2,
    test_alloc_parse_pi,
    test_alloc_parse_pi_2,
    test_alloc_parse_pi_3,
    test_alloc_parse_comment,
    test_alloc_parse_comment_2,
    test_alloc_create_external_parser,
    test_alloc_run_external_parser>>) \o
  Since(<<2, 2, 1>>, <<
    test_alloc_dtd_copy_default_atts,
    test_alloc_external_entity>>) \o
  Since(Always, <<
    test_alloc_ext_entity_set_encoding,
    test_alloc_internal_entity,
    test_alloc_dtd_default_handling,
    test_alloc_explicit_encoding,
    test_alloc_set_base,
    test_alloc_realloc_buffer,
    test_alloc_ext_entity_realloc_buffer,
    test_alloc_realloc_many_attributes,
    test_alloc_public_entity_value,
    test_alloc_realloc_subst_public_entity_value,
    test_alloc_parse_public_doctype,
    test_alloc_parse_public_doctype_long_name,
    test_alloc_set_foreign_dtd,
    test_alloc_attribute_enum_value,
    test_alloc_realloc_attribute_enum_value,
    test_alloc_realloc_implied_attribute,
    test_alloc_realloc_default_attribute,
    test_alloc_notation,
    test_alloc_public_notation,
    test_alloc_system_notation,
    test_alloc_nested_groups,
    test_alloc_realloc_nested_groups,
    test_alloc_large_group,
    test_alloc_realloc_group_choice,
    test_alloc_pi_in_epilog,
    test_alloc_comment_in_epilog,
    test_alloc_realloc_long_attribute_value,
    test_alloc_attribute_whitespace,
    test_alloc_attribute_predefined_entity,
    test_alloc_long_attr_default_with_char_ref,
    test_alloc_long_attr_value,
    test_alloc_nested_entities,
    test_alloc_realloc_param_entity_newline,
    test_alloc_realloc_ce_extends_pe,
    test_alloc_realloc_attributes,
    test_alloc_long_doc_name,
    test_alloc_long_base,
    test_alloc_long_public_id,
    test_alloc_long_entity_value,
    test_alloc_long_notation>>) \o
  Since(<<2, 5, 0>>, <<test_alloc_reset_after_external_entity_parser_create_fail>>))

tc_nsalloc == TestCase("alloc", "basic",
  Since(Always, <<
    test_nsalloc_xmlns,
    test_nsalloc_parse_buffer,
    test_nsalloc_long_prefix>>) \o
  Since(<<2, 1, 1>>, <<
    test_nsalloc_long_uri,
    test_nsalloc_long_attr,
    test_nsalloc_long_attr_prefix>>) \o
  Since(Always, <<test_nsalloc_realloc_attributes>>) \o
  Since(<<2, 1, 1>>, <<test_nsalloc_long_element>>) \o
  Since(Always, <<
    test_nsalloc_realloc_binding_uri,
    test_nsalloc_realloc_long_prefix,
    test_nsalloc_realloc_longer_prefix,
    test_nsalloc_long_namespace,
    test_nsalloc_less_long_namespace>>) \o
  Since(<<2, 2, 1>>, <<test_nsalloc_long_context>>) \o
  Since(Always, <<
    test_nsalloc_realloc_long_context,
    test_nsalloc_realloc_long_context_2,
    test_nsalloc_realloc_long_context_3,
    test_nsalloc_realloc_long_context_4,
    test_nsalloc_realloc_long_context_5,
    test_nsalloc_realloc_long_context_6,
    test_nsalloc_realloc_long_context_7,
    test_nsalloc_realloc_long_ge_name,
    test_nsalloc_realloc_long_context_in_dtd>>) \o
  Since(<<2, 2, 1>>, <<test_nsalloc_long_default_in_ext>>) \o
  Since(Always, <<test_nsalloc_long_systemid_in_ext>>) \o
  Since(<<2, 2, 1>>, <<test_nsalloc_prefixed_element>>))

tc_accounting == TestCase("none", "none",
  Since(<<2, 4, 0>>, <<test_billion_laughs_attack_protection_api>>) \o
  Since(Always, <<test_helper_unsigned_char_to_printable>>))

make_suite == <<tc_basic, tc_namespace, tc_misc, tc_alloc, tc_nsalloc, tc_accounting>>

-------------------------------------------------------------------------------
(* What the tests of make_suite() have in common, which is all the proofs  *)
(* need to know about them.                                                *)

Tests ==
  [kind    : {"loop", "paired", "fixed", "plain", "tracked"},
   counter : {"alloc", "realloc"},
   max     : Nat,
   stages  : Seq({"arm", "parse", "must", "refused", "base", "create", "create_must", "encode",
                  "ext", "ext_disarm", "fault", "second", "parser", "external"}),
   recover : {"recreate", "reset", "nothing", "keep", "forget", "create", "local"},
   disarm  : {"never", "first", "last"},
   flags   : BOOLEAN,
   storage : BOOLEAN]

Releases == Nat \X Nat \X Nat

(* An external parser may be alive before the k-th call.                   *)
Live(t, k) ==
  \E a \in 1 .. k - 1 :
    /\ t.stages[a] \in {"create", "create_must", "second"}
    /\ \A b \in a + 1 .. k - 1 : t.stages[b] \notin {"ext", "ext_disarm"}

(* An external parser is freed before an attempt can be given up, which a  *)
(* "continue" does in a loop only, and g_parser is created by the last     *)
(* call of an attempt.  The counter is set once.  With a fixed number of   *)
(* allocations it is set before the first call, and the last call, and no  *)
(* other, wants an error.                                                  *)
WellFormed(t) ==
  /\ t.kind \in {"loop", "paired"} => t.max > 0
  /\ t.kind \in {"plain", "tracked"} => t.max = 0
  /\ t.kind = "paired" => t.stages = <<"arm", "second">>
  /\ t.kind = "fixed" => /\ Len(t.stages) > 1 /\ t.stages[1] = "arm"
                         /\ t.stages[Len(t.stages)] \in {"refused", "fault"}
                         /\ ~t.flags /\ ~t.storage
  /\ \A k \in DOMAIN t.stages :
       /\ t.stages[k] = "base" => t.kind = "loop" /\ ~Live(t, k)
       /\ t.stages[k] = "parse" /\ k = Len(t.stages) => ~Live(t, k + 1)
       /\ t.stages[k] = "parser" => k = Len(t.stages)
       /\ t.stages[k] = "arm" => \A l \in 1 .. k - 1 : t.stages[l] # "arm"
       /\ t.stages[k] = "ext_disarm" => t.kind # "fixed"
       /\ t.stages[k] \in {"refused", "fault"} => t.kind = "fixed" /\ k = Len(t.stages)

(* A test creates or forgets g_parser only without a setup that does so,   *)
(* and without a teardown there is nothing to free.                        *)
Fits(setup, teardown, t) ==
  /\ setup # "none" => /\ t.kind # "tracked" /\ t.recover \notin {"create", "forget"}
                       /\ \A k \in DOMAIN t.stages : t.stages[k] # "parser"
  /\ t.recover = "recreate" => setup = "alloc"
  /\ teardown = "none" => setup = "none" /\ t.kind = "plain" /\ t.recover # "create"

ASSUME SuiteAssumption ==
  \A s \in Suites :
    /\ s \in Seq([setup : {"none", "basic", "alloc"}, teardown : {"none", "basic"},
                  tests : Seq([test : Tests, since : Releases])])
    /\ \A c \in DOMAIN s : \A k \in DOMAIN s[c].tests :
         LET t == s[c].tests[k].test IN WellFormed(t) /\ Fits(s[c].setup, s[c].teardown, t)

===============================================================================
