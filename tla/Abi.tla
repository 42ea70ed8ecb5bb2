-------------------------------- MODULE Abi ---------------------------------
(***************************************************************************)
(* The C ABI: what a caller of the library can learn from an answer.       *)
(*                                                                         *)
(* Every handler has the same course - check the pointers, decode the      *)
(* arguments, run the operation, write the answer - and differs in what it *)
(* does where the course is left.  A handler is the record of these        *)
(* choices; the operations are the subject of the other modules.           *)
(*                                                                         *)
(*   null, text, json   a null pointer, text that is not UTF-8, or text    *)
(*                      that is not the JSON expected                      *)
(*   gone, fail         the operation finds nothing / returns Err          *)
(*                                                                         *)
(* Each is "told" (error code or NULL with a message in LAST_ERROR),       *)
(* "silent" (error code or NULL alone), "answered" (a plain answer, such   *)
(* as 1 for not found), "dropped" (a default replaces the argument),       *)
(* "body" (an error document instead of NULL), "none" or "never".          *)
(*                                                                         *)
(*   acts    the call changes memories, organs or files (the interning of  *)
(*           names by the event recalls aside)                             *)
(*   reply   "word" fits always; "hits" is cut to the caller's array;      *)
(*           "text" is allocated; a text copied into the caller's buffer   *)
(*           is "bare", or "nul" when a zero follows it, or "len" when     *)
(*           -2 also reports the length that was needed; it is "cut" where *)
(*           what does not fit is left out without a word                  *)
(*   done    success "clears" LAST_ERROR, "keeps" it, or "cries":          *)
(*           unwrap_or(json_null(..)) evaluates its argument first and     *)
(*           leaves a message although the answer is not NULL              *)
(*                                                                         *)
(* In the table are the handlers of operations no other module models, and *)
(* every handler of the library that has a silent error or that acts and   *)
(* may then answer -2.  Functions without an error code (cf_memory_count,  *)
(* cf_save_snapshot: a number, a flag) are not in it.                      *)
(*                                                                         *)
(* ram is the length of the text (number of hits) the store would answer   *)
(* with now; env.message is the calling thread's LAST_ERROR as seen from   *)
(* the current call: empty, left by an earlier call, or by this one.       *)
(***************************************************************************)
EXTENDS Naturals

CONSTANTS MaxSize, MaxCalls

VARIABLES ram, env

Handler(name, null, text, json, gone, fail, acts, reply, done) ==
  [name |-> name, null |-> null, text |-> text, json |-> json, gone |-> gone,
   fail |-> fail, acts |-> acts, reply |-> reply, done |-> done]

Code(name, text, gone, fail, done) ==
  Handler(name, "silent", text, "none", gone, fail, TRUE, "word", done)

JsonCode(name, gone, fail, done) ==
  Handler(name, "silent", "silent", "silent", gone, fail, TRUE, "word", done)

Hits(name, text, fail, done) ==
  Handler(name, "silent", text, "none", "never", fail, FALSE, "hits", done)

Listing(name, text, gone, fail, reply, done) ==
  Handler(name, "silent", text, "none", gone, fail, FALSE, reply, done)

Acting(name, text, gone, fail, reply, done) ==
  Handler(name, "silent", text, "none", gone, fail, TRUE, reply, done)

(* get_content_impl; a missing memory is an Err. *)
Content(name) == Listing(name, "none", "never", "told", "len", "clears")

Json(name, text, json, gone, fail, done) ==
  Handler(name, "told", text, json, gone, fail, FALSE, "text", done)

JsonActing(name, text, json, gone, fail, done) ==
  Handler(name, "told", text, json, gone, fail, TRUE, "text", done)

(* Handlers that answer with a code and change the store. *)
cf_put_memory == Code("cf_put_memory", "told", "never", "told", "clears")
cf_update_state == Code("cf_update_state", "none", "never", "told", "clears")
cf_record_outcome == Code("cf_record_outcome", "none", "never", "told", "clears")
cf_upsert_artifact == Code("cf_upsert_artifact", "told", "never", "told", "clears")
cf_set_retrieval_surface ==
  Code("cf_set_retrieval_surface", "dropped", "never", "never", "clears")
cf_backfill_stage == Code("cf_backfill_stage", "none", "never", "told", "clears")
cf_requeue_all_embeddings ==
  Code("cf_requeue_all_embeddings", "dropped", "never", "silent", "keeps")
cf_upsert_symbol == Code("cf_upsert_symbol", "told", "never", "told", "clears")
cf_remove_symbols_by_file ==
  Code("cf_remove_symbols_by_file", "told", "never", "told", "clears")
cf_backfill_artifact_refs ==
  Code("cf_backfill_artifact_refs", "none", "never", "never", "keeps")
cf_set_source_session ==
  Code("cf_set_source_session", "told", "never", "told", "keeps")
cf_log_event == Code("cf_log_event", "told", "never", "never", "clears")
cf_select_route == Code("cf_select_route", "dropped", "never", "never", "clears")
cf_forget_triplet == Code("cf_forget_triplet", "dropped", "never", "told", "clears")
cf_backfill_embedding ==
  Code("cf_backfill_embedding", "none", "never", "told", "clears")
cf_upsert_code_file_v2 ==
  Code("cf_upsert_code_file_v2", "told", "never", "told", "clears")
cf_invalidate_triplets_by_source_file ==
  Code("cf_invalidate_triplets_by_source_file", "told", "never", "told", "clears")
cf_predicate_attach ==
  Code("cf_predicate_attach", "silent", "never", "silent", "keeps")
cf_span_ingest_memory ==
  Code("cf_span_ingest_memory", "silent", "never", "never", "keeps")
cf_purge_corrupt == Code("cf_purge_corrupt", "none", "never", "never", "clears")
cf_close_intervention ==
  Code("cf_close_intervention", "none", "answered", "silent", "keeps")
cf_transition_wisdom_lineage ==
  Code("cf_transition_wisdom_lineage", "dropped", "answered", "silent", "keeps")
cf_repl_session_set ==
  Code("cf_repl_session_set", "told", "never", "never", "keeps")
cf_save_scoring_config ==
  Code("cf_save_scoring_config", "none", "never", "silent", "keeps")
cf_mark_memory_invalidated ==
  Code("cf_mark_memory_invalidated", "silent", "silent", "never", "keeps")
cf_retract_constraint ==
  Code("cf_retract_constraint", "none", "told", "told", "clears")
cf_create_constraint_branch ==
  Code("cf_create_constraint_branch", "silent", "never", "silent", "keeps")
cf_resolve_debt == Code("cf_resolve_debt", "silent", "told", "told", "clears")
cf_update_wisdom_lifecycle ==
  Code("cf_update_wisdom_lifecycle", "none", "silent", "silent", "keeps")
cf_triplet_supersede ==
  Code("cf_triplet_supersede", "none", "never", "silent", "keeps")
cf_span_ingest == Code("cf_span_ingest", "silent", "never", "never", "keeps")
cf_skill_deprecate ==
  Code("cf_skill_deprecate", "told", "silent", "told", "keeps")
cf_agent_disable == Code("cf_agent_disable", "told", "silent", "told", "keeps")
cf_close_stale_interventions ==
  Code("cf_close_stale_interventions", "none", "never", "silent", "keeps")
cf_ledger_compile == Code("cf_ledger_compile", "none", "never", "silent", "keeps")

(* The same with the arguments in one JSON text. *)
cf_record_attribution ==
  JsonCode("cf_record_attribution", "answered", "silent", "keeps")
cf_update_task == JsonCode("cf_update_task", "answered", "silent", "keeps")
cf_resolve_probe == JsonCode("cf_resolve_probe", "answered", "silent", "keeps")
cf_close_rederive == JsonCode("cf_close_rederive", "never", "silent", "keeps")
cf_ledger_append == JsonCode("cf_ledger_append", "never", "silent", "keeps")
cf_add_trigger == JsonCode("cf_add_trigger", "never", "silent", "keeps")
cf_attach_debt_evidence ==
  JsonCode("cf_attach_debt_evidence", "silent", "silent", "keeps")
cf_update_scorer_model ==
  JsonCode("cf_update_scorer_model", "never", "silent", "keeps")
cf_update_source_weight ==
  JsonCode("cf_update_source_weight", "never", "told", "clears")

(* Handlers that fill an array of hits. *)
cf_bridge_lane == Hits("cf_bridge_lane", "told", "never", "clears")
cf_expand_associations == Hits("cf_expand_associations", "none", "told", "clears")
cf_ppr_lane == Hits("cf_ppr_lane", "none", "never", "clears")
cf_search_symbols_by_name ==
  Hits("cf_search_symbols_by_name", "told", "never", "clears")
cf_search_symbols_semantic ==
  Hits("cf_search_symbols_semantic", "none", "never", "clears")
cf_symbols_in_file == Hits("cf_symbols_in_file", "told", "never", "clears")
cf_search_symbols_by_name_scoped ==
  Hits("cf_search_symbols_by_name_scoped", "told", "never", "clears")
cf_get_callees == Hits("cf_get_callees", "none", "never", "clears")
cf_get_callers == Hits("cf_get_callers", "none", "never", "clears")
cf_get_conflicts == Hits("cf_get_conflicts", "none", "told", "clears")
cf_get_supersession_chain ==
  Hits("cf_get_supersession_chain", "none", "told", "clears")
cf_get_confirmations == Hits("cf_get_confirmations", "none", "told", "clears")
cf_search_attractor == Hits("cf_search_attractor", "none", "silent", "keeps")
cf_recall_field == Hits("cf_recall_field", "told", "told", "clears")
cf_recall_temporal_events ==
  Hits("cf_recall_temporal_events", "none", "told", "clears")
cf_recall_last_action == Hits("cf_recall_last_action", "told", "told", "clears")
cf_recall_session == Hits("cf_recall_session", "told", "told", "keeps")

(* Handlers that copy a text into a buffer. *)
cf_get_retrieval_surface ==
  Listing("cf_get_retrieval_surface", "none", "never", "never", "len", "clears")
cf_provenance_lookup ==
  Listing("cf_provenance_lookup", "dropped", "answered", "never", "len", "clears")
cf_correction_check ==
  Listing("cf_correction_check", "dropped", "answered", "never", "len", "clears")
cf_task_state_lookup ==
  Listing("cf_task_state_lookup", "dropped", "answered", "never", "len", "clears")
cf_get_kind == Listing("cf_get_kind", "none", "never", "told", "nul", "clears")
cf_get_realm == Listing("cf_get_realm", "none", "never", "told", "nul", "clears")
cf_query_subject ==
  Listing("cf_query_subject", "told", "never", "told", "nul", "keeps")
cf_query_object ==
  Listing("cf_query_object", "told", "never", "told", "nul", "keeps")
cf_query_entity ==
  Listing("cf_query_entity", "told", "never", "told", "nul", "keeps")
cf_list_triplets_for_entity ==
  Listing("cf_list_triplets_for_entity", "told", "never", "never", "nul", "keeps")
cf_get_assoc_edges ==
  Listing("cf_get_assoc_edges", "none", "never", "never", "nul", "clears")
cf_get_memory_embeddings_batch ==
  Listing("cf_get_memory_embeddings_batch", "none", "never", "never", "bare", "keeps")
cf_get_latest_event ==
  Listing("cf_get_latest_event", "told", "answered", "told", "bare", "keeps")
cf_get_events_by_target ==
  Listing("cf_get_events_by_target", "told", "never", "never", "bare", "keeps")
cf_get_events_by_domain_kind ==
  Listing("cf_get_events_by_domain_kind", "told", "never", "never", "bare", "keeps")
cf_get_event_by_id ==
  Listing("cf_get_event_by_id", "none", "never", "never", "bare", "keeps")
cf_task_list == Listing("cf_task_list", "told", "never", "never", "bare", "clears")
cf_user_model_list ==
  Listing("cf_user_model_list", "told", "never", "never", "bare", "clears")
cf_theme_list ==
  Listing("cf_theme_list", "none", "never", "never", "bare", "clears")
cf_theme_get ==
  Listing("cf_theme_get", "none", "answered", "never", "bare", "clears")
cf_theme_stats ==
  Listing("cf_theme_stats", "told", "never", "never", "bare", "clears")
cf_theme_recall ==
  Listing("cf_theme_recall", "told", "never", "never", "bare", "clears")
cf_analytics_recent ==
  Listing("cf_analytics_recent", "none", "never", "never", "bare", "clears")
cf_list_memories ==
  Listing("cf_list_memories", "told", "never", "never", "bare", "keeps")
cf_memory_stats ==
  Listing("cf_memory_stats", "told", "never", "never", "bare", "keeps")
cf_task_get == Listing("cf_task_get", "told", "answered", "never", "bare", "keeps")
cf_session_list ==
  Listing("cf_session_list", "none", "never", "never", "bare", "keeps")
cf_transcript_list ==
  Listing("cf_transcript_list", "none", "never", "never", "bare", "keeps")
cf_get_memory_metadata ==
  Listing("cf_get_memory_metadata", "none", "answered", "never", "bare", "clears")
cf_list_code_files ==
  Listing("cf_list_code_files", "told", "never", "never", "bare", "clears")
cf_realm_list == Listing("cf_realm_list", "none", "never", "never", "bare", "keeps")

cf_recall_spreading ==
  Listing("cf_recall_spreading", "dropped", "never", "never", "cut", "keeps")
cf_encode_lite ==
  Listing("cf_encode_lite", "silent", "silent", "never", "word", "keeps")

(* The ones among them that change the store first. *)
cf_theme_maintain ==
  Acting("cf_theme_maintain", "none", "never", "never", "bare", "clears")
cf_theme_assign_orphans ==
  Acting("cf_theme_assign_orphans", "told", "never", "never", "bare", "clears")
cf_dedupe_symbols ==
  Acting("cf_dedupe_symbols", "told", "never", "told", "bare", "keeps")
cf_save_spectral_snapshot ==
  Acting("cf_save_spectral_snapshot", "none", "never", "told", "bare", "keeps")
cf_get_content == [Content("cf_get_content") EXCEPT !.acts = TRUE]
cf_peek_content == Content("cf_peek_content")
cf_remap_realms ==
  [Acting("cf_remap_realms", "told", "never", "never", "bare", "keeps")
     EXCEPT !.json = "told"]

(* Handlers that return an allocated JSON text. *)
cf_write_gate_stats ==
  Json("cf_write_gate_stats", "none", "none", "never", "never", "keeps")
cf_query_symbol_events ==
  Json("cf_query_symbol_events", "told", "dropped", "never", "never", "cries")
cf_query_cross_harness_conflicts ==
  Json("cf_query_cross_harness_conflicts", "dropped", "none", "never", "never", "keeps")
cf_query_constraints ==
  Json("cf_query_constraints", "told", "told", "never", "never", "cries")
cf_explain_constraint ==
  Json("cf_explain_constraint", "none", "none", "told", "never", "cries")
cf_constraint_stats ==
  Json("cf_constraint_stats", "none", "none", "never", "never", "cries")
cf_query_surprises ==
  Json("cf_query_surprises", "told", "told", "never", "never", "cries")
cf_query_debts == Json("cf_query_debts", "told", "told", "never", "never", "cries")
cf_query_wisdom_candidates ==
  Json("cf_query_wisdom_candidates", "told", "dropped", "never", "never", "cries")
cf_effective_scorer_weights ==
  Json("cf_effective_scorer_weights", "none", "none", "never", "never", "cries")
cf_detect_contradictions ==
  Json("cf_detect_contradictions", "told", "none", "answered", "never", "cries")
cf_scan_contradictions ==
  Json("cf_scan_contradictions", "told", "none", "never", "never", "cries")
cf_resolve_contradiction ==
  Json("cf_resolve_contradiction", "dropped", "none", "answered", "never", "cries")
cf_triplet_query_as_of ==
  Json("cf_triplet_query_as_of", "told", "none", "never", "told", "keeps")
cf_graph_traverse ==
  Json("cf_graph_traverse", "told", "dropped", "never", "never", "cries")
cf_graph_pagerank ==
  Json("cf_graph_pagerank", "dropped", "dropped", "never", "never", "cries")
cf_span_query == Json("cf_span_query", "told", "none", "never", "never", "keeps")
cf_recall_failure_pattern ==
  Json("cf_recall_failure_pattern", "none", "none", "never", "told", "keeps")
cf_recall_causal_antecedent ==
  Json("cf_recall_causal_antecedent", "told", "none", "never", "told", "keeps")
cf_recall_hdcbind ==
  Json("cf_recall_hdcbind", "told", "none", "never", "told", "keeps")
cf_recall_counterfactual ==
  Json("cf_recall_counterfactual", "told", "none", "never", "told", "keeps")
cf_recall_motif_value ==
  Json("cf_recall_motif_value", "told", "none", "never", "told", "keeps")
cf_recall_true_counterfactual ==
  Json("cf_recall_true_counterfactual", "dropped", "none", "never", "told", "keeps")
cf_skill_read == Json("cf_skill_read", "told", "none", "told", "never", "cries")
cf_agent_get == Json("cf_agent_get", "told", "none", "told", "never", "cries")
cf_query_interventions ==
  Json("cf_query_interventions", "told", "dropped", "never", "never", "cries")
cf_get_intervention ==
  Json("cf_get_intervention", "none", "none", "told", "never", "cries")
cf_get_task == Json("cf_get_task", "none", "none", "told", "never", "cries")
cf_query_tasks ==
  Json("cf_query_tasks", "told", "dropped", "never", "never", "cries")
cf_query_wisdom_lineages ==
  Json("cf_query_wisdom_lineages", "told", "dropped", "never", "never", "cries")
cf_get_wisdom_lineage ==
  Json("cf_get_wisdom_lineage", "none", "none", "told", "never", "cries")
cf_repl_session_get ==
  Json("cf_repl_session_get", "told", "none", "told", "never", "cries")
cf_ledger_query == Json("cf_ledger_query", "told", "told", "never", "told", "cries")
cf_routed_recall ==
  JsonActing("cf_routed_recall", "dropped", "body", "never", "never", "cries")
cf_memory_breakdown ==
  [Json("cf_memory_breakdown", "none", "none", "never", "never", "keeps")
     EXCEPT !.null = "silent"]
cf_parse_time_window ==
  [Json("cf_parse_time_window", "silent", "none", "silent", "never", "keeps")
     EXCEPT !.null = "silent"]
cf_recall_analogy ==
  [JsonActing("cf_recall_analogy", "body", "body", "never", "never", "keeps")
     EXCEPT !.null = "body"]

(* The same, changing the store. *)
cf_assoc_decay ==
  JsonActing("cf_assoc_decay", "none", "none", "never", "never", "keeps")
cf_prune_memories ==
  JsonActing("cf_prune_memories", "dropped", "dropped", "never", "told", "keeps")
cf_consolidation_pass ==
  JsonActing("cf_consolidation_pass", "none", "none", "never", "told", "keeps")
cf_assert_constraint ==
  JsonActing("cf_assert_constraint", "told", "told", "never", "told", "cries")
cf_fire_trigger ==
  JsonActing("cf_fire_trigger", "none", "none", "told", "told", "cries")
cf_evaluate_triggers ==
  JsonActing("cf_evaluate_triggers", "none", "none", "never", "told", "cries")
cf_record_surprise ==
  JsonActing("cf_record_surprise", "told", "told", "never", "told", "cries")
cf_register_debt ==
  JsonActing("cf_register_debt", "told", "told", "never", "told", "cries")
cf_record_feedback ==
  JsonActing("cf_record_feedback", "told", "told", "never", "told", "cries")
cf_upsert_wisdom_candidate ==
  JsonActing("cf_upsert_wisdom_candidate", "told", "told", "never", "told", "cries")
cf_start_intervention ==
  JsonActing("cf_start_intervention", "told", "told", "never", "told", "cries")
cf_add_observation ==
  JsonActing("cf_add_observation", "told", "told", "told", "told", "cries")
cf_register_task ==
  JsonActing("cf_register_task", "told", "told", "never", "told", "cries")
cf_add_delegation ==
  JsonActing("cf_add_delegation", "told", "told", "told", "told", "cries")
cf_link_evidence ==
  JsonActing("cf_link_evidence", "told", "told", "told", "told", "cries")
cf_add_probe == JsonActing("cf_add_probe", "told", "told", "told", "told", "cries")
cf_set_criterion ==
  JsonActing("cf_set_criterion", "told", "told", "told", "told", "cries")
cf_enroll_wisdom_lineage ==
  JsonActing("cf_enroll_wisdom_lineage", "told", "told", "never", "told", "cries")
cf_repl_execute ==
  JsonActing("cf_repl_execute", "told", "none", "never", "never", "cries")

Handlers == {
  cf_put_memory, cf_update_state, cf_record_outcome, cf_upsert_artifact,
  cf_set_retrieval_surface, cf_backfill_stage, cf_requeue_all_embeddings,
  cf_upsert_symbol, cf_remove_symbols_by_file, cf_backfill_artifact_refs,
  cf_set_source_session, cf_log_event, cf_select_route, cf_forget_triplet,
  cf_backfill_embedding, cf_upsert_code_file_v2,
  cf_invalidate_triplets_by_source_file, cf_predicate_attach,
  cf_span_ingest_memory, cf_purge_corrupt, cf_close_intervention,
  cf_transition_wisdom_lineage, cf_repl_session_set, cf_record_attribution,
  cf_update_task, cf_resolve_probe, cf_close_rederive, cf_ledger_append,
  cf_add_trigger, cf_attach_debt_evidence, cf_update_scorer_model,
  cf_update_source_weight, cf_bridge_lane, cf_expand_associations,
  cf_ppr_lane, cf_search_symbols_by_name, cf_search_symbols_semantic,
  cf_symbols_in_file, cf_search_symbols_by_name_scoped, cf_get_callees,
  cf_get_callers, cf_get_conflicts, cf_get_supersession_chain,
  cf_get_confirmations, cf_search_attractor, cf_recall_field,
  cf_recall_temporal_events, cf_recall_last_action, cf_recall_session,
  cf_get_retrieval_surface, cf_provenance_lookup, cf_correction_check,
  cf_task_state_lookup, cf_get_kind, cf_get_realm, cf_query_subject,
  cf_query_object, cf_query_entity, cf_list_triplets_for_entity,
  cf_get_assoc_edges, cf_get_memory_embeddings_batch, cf_get_latest_event,
  cf_get_events_by_target, cf_get_events_by_domain_kind, cf_get_event_by_id,
  cf_task_list, cf_user_model_list, cf_theme_list, cf_theme_get,
  cf_theme_stats, cf_theme_recall, cf_analytics_recent, cf_list_memories,
  cf_memory_stats, cf_task_get, cf_session_list, cf_transcript_list,
  cf_get_memory_metadata, cf_list_code_files, cf_realm_list,
  cf_dedupe_symbols, cf_save_spectral_snapshot, cf_get_content,
  cf_peek_content, cf_remap_realms, cf_write_gate_stats,
  cf_query_symbol_events, cf_query_cross_harness_conflicts,
  cf_query_constraints, cf_explain_constraint, cf_constraint_stats,
  cf_query_surprises, cf_query_debts, cf_query_wisdom_candidates,
  cf_effective_scorer_weights, cf_detect_contradictions,
  cf_scan_contradictions, cf_resolve_contradiction, cf_triplet_query_as_of,
  cf_graph_traverse, cf_graph_pagerank, cf_span_query,
  cf_recall_failure_pattern, cf_recall_causal_antecedent, cf_recall_hdcbind,
  cf_recall_counterfactual, cf_recall_motif_value,
  cf_recall_true_counterfactual, cf_skill_read, cf_agent_get,
  cf_query_interventions, cf_get_intervention, cf_get_task, cf_query_tasks,
  cf_query_wisdom_lineages, cf_get_wisdom_lineage, cf_repl_session_get,
  cf_ledger_query, cf_parse_time_window, cf_recall_analogy, cf_assoc_decay,
  cf_prune_memories, cf_consolidation_pass, cf_assert_constraint,
  cf_fire_trigger, cf_evaluate_triggers, cf_record_surprise, cf_register_debt,
  cf_record_feedback, cf_upsert_wisdom_candidate, cf_start_intervention,
  cf_add_observation, cf_register_task, cf_add_delegation, cf_link_evidence,
  cf_add_probe, cf_set_criterion, cf_enroll_wisdom_lineage, cf_repl_execute,
  cf_save_scoring_config, cf_mark_memory_invalidated, cf_retract_constraint,
  cf_create_constraint_branch, cf_resolve_debt, cf_update_wisdom_lifecycle,
  cf_triplet_supersede, cf_span_ingest, cf_skill_deprecate, cf_agent_disable,
  cf_close_stale_interventions, cf_ledger_compile, cf_recall_spreading,
  cf_encode_lite, cf_theme_maintain, cf_theme_assign_orphans,
  cf_routed_recall, cf_memory_breakdown}
-----------------------------------------------------------------------------
vars == <<ram, env>>

Idle == [phase |-> "idle"]

Init == ram = 0 /\ env = [message |-> "empty", calls |-> 0, call |-> Idle]

(* Another client's write makes the answer longer. *)
Grow == ram < MaxSize /\ ram' = ram + 1 /\ UNCHANGED env

Older(message) == IF message = "this" THEN "earlier" ELSE message

Enter(h) ==
  /\ env.call.phase \in {"idle", "over"} /\ env.calls < MaxCalls
  /\ env' = [message |-> Older(env.message), calls |-> env.calls + 1,
             call |-> [phase |-> "entered", h |-> h, cap |-> 1, wrote |-> 0,
                       told |-> 0, applied |-> 0, code |-> 0, excuse |-> FALSE]]
  /\ UNCHANGED ram

(* CfHandle::err and json_null, or a bare return; the error document of a
   handler that cries leaves its message too. *)
Leaves(how, done) == how = "told" \/ (how = "body" /\ done = "cries")

Fails(how, phase) ==
  /\ env' = [env EXCEPT !.message = IF Leaves(how, env.call.h.done) THEN "this" ELSE @,
                        !.call = [env.call EXCEPT
                          !.phase = "over", !.code = IF how = "body" THEN 0 ELSE 0 - 1,
                          !.excuse = phase = "null" /\ env.call.h.reply # "text"]]
  /\ UNCHANGED ram

NullPointer ==
  /\ env.call.phase = "entered"
  /\ Fails(env.call.h.null, "null")

Garbled ==
  /\ env.call.phase = "entered"
  /\ \E how \in {env.call.h.text, env.call.h.json} \ {"none", "dropped"} :
       Fails(how, "text")

OperationFails ==
  /\ env.call.phase = "entered"
  /\ env.call.h.fail # "never"
  /\ Fails(env.call.h.fail, "fail")

NothingFound ==
  /\ env.call.phase = "entered"
  /\ env.call.h.gone \in {"told", "silent"}
  /\ Fails(env.call.h.gone, "gone")

(* The answer 1 (or an empty document) leaves LAST_ERROR alone. *)
NotThere ==
  /\ env.call.phase = "entered" /\ env.call.h.gone = "answered"
  /\ env' = [env EXCEPT !.call = [env.call EXCEPT !.phase = "over", !.code = 1]]
  /\ UNCHANGED ram

(* The operation runs under the store's locks and yields its answer. *)
Operate ==
  /\ env.call.phase = "entered"
  /\ env' = [env EXCEPT !.call = [env.call EXCEPT
                          !.phase = "operated", !.told = ram,
                          !.applied = @ + (IF env.call.h.acts THEN 1 ELSE 0)]]
  /\ UNCHANGED ram

(* Bytes a text takes in the caller's buffer. *)
Needed(h, length) == IF h.reply \in {"len", "nul"} THEN length + 1 ELSE length

(* Mutant: no room for the closing zero is asked for. *)
TooShortByZero(h, length, cap) == h.reply \in {"len", "nul", "bare"} /\ length > cap

(* `bytes.len() >= buf_cap' where a zero follows, else `bytes.len() > buf_cap'. *)
TooShort(h, length, cap) ==
  CASE h.reply \in {"len", "nul"} -> length >= cap
    [] h.reply = "bare" -> length > cap
    [] OTHER -> FALSE

Message(done, message) ==
  CASE done = "clears" -> "empty" [] done = "cries" -> "this" [] done = "keeps" -> message

(* write_hits: n = hits.len().min(cap); a cut text keeps room for its zero. *)
Written(h, length, cap) ==
  CASE h.reply = "hits" -> IF length < cap THEN length ELSE cap
    [] h.reply = "cut" -> IF length < cap THEN length + 1 ELSE cap
    [] h.reply \in {"len", "nul", "bare"} -> Needed(h, length)
    [] OTHER -> 0

Reply ==
  LET call == env.call
  IN  /\ call.phase = "operated"
      /\ env' = IF TooShort(call.h, call.told, call.cap)
                THEN [env EXCEPT !.call = [call EXCEPT !.phase = "short", !.code = 0 - 2]]
                ELSE [env EXCEPT !.message = Message(call.h.done, @),
                                 !.call = [call EXCEPT
                                   !.phase = "over", !.code = 0,
                                   !.wrote = Written(call.h, call.told, call.cap)]]
      /\ UNCHANGED ram

(* The caller's side: after -2 the same request with a larger buffer, one
   more than the length reported, or twice the size where none was. *)
Retry ==
  /\ env.call.phase = "short"
  /\ env' = [env EXCEPT !.message = Older(@),
                        !.call = [env.call EXCEPT
                          !.phase = "entered",
                          !.cap = IF env.call.h.reply = "len"
                                  THEN env.call.told + 1 ELSE 2 * @]]
  /\ UNCHANGED ram

Handle == NullPointer \/ Garbled \/ OperationFails \/ NothingFound \/ NotThere
          \/ Operate \/ Reply

Next == Grow \/ (\E h \in Handlers : Enter(h)) \/ Handle \/ Retry

Spec == Init /\ [][Next]_vars /\ WF_vars(Handle)
-----------------------------------------------------------------------------
(* The handlers with an error that is a bare -1 (or NULL). *)
Mute == {
  "cf_requeue_all_embeddings", "cf_predicate_attach", "cf_span_ingest_memory",
  "cf_close_intervention", "cf_transition_wisdom_lineage", "cf_record_attribution",
  "cf_update_task", "cf_resolve_probe", "cf_close_rederive", "cf_ledger_append",
  "cf_add_trigger", "cf_attach_debt_evidence", "cf_update_scorer_model",
  "cf_update_source_weight", "cf_search_attractor", "cf_parse_time_window",
  "cf_save_scoring_config", "cf_mark_memory_invalidated", "cf_create_constraint_branch",
  "cf_resolve_debt", "cf_update_wisdom_lifecycle", "cf_triplet_supersede",
  "cf_span_ingest", "cf_skill_deprecate", "cf_agent_disable",
  "cf_close_stale_interventions", "cf_ledger_compile", "cf_encode_lite",
  "cf_memory_breakdown"}

(* README.md:175, as far as the code keeps it: after an answer that says
   error, cf_last_error describes this call and not an earlier one, unless
   the handler is mute or a code-returning handler met a null pointer; after
   a successful code it never describes this call. *)
ErrorTold ==
  env.call.phase = "over" =>
    /\ env.call.code = 0 - 1 =>
         env.message = "this" \/ env.call.h.name \in Mute \/ env.call.excuse
    /\ env.call.code >= 0 /\ env.call.h.reply # "text" => env.message # "this"

(* An answer never runs past the caller's buffer, its closing zero included,
   and a request that had to be repeated with a larger buffer has taken
   effect once - except for the handlers that act before they find the buffer
   too short, and those may act on every attempt. *)
RetrySafe ==
  env.call.phase \in {"over", "short"} =>
    /\ env.call.wrote <= env.call.cap
    /\ env.call.applied > 1 =>
         env.call.h.name \in {"cf_get_content", "cf_dedupe_symbols",
                              "cf_save_spectral_snapshot", "cf_remap_realms",
                              "cf_theme_maintain", "cf_theme_assign_orphans"}
=============================================================================
