SPECIFICATION FairSpec
CONSTANTS
  Tasks = {t1, t2}
  Calls = {"leave_meeting", "end_meeting", "remove_participant", "get_group_key", "set_handler", "set_group_callback", "update_livekit_token", "services_reset", "connect_to_ws", "create_mls_client", "join_room", "join_with_proposal", "clear_prejoin_session", "is_mls_up_to_date", "set_active_uuids", "wait_for_welcome", "clear_join_request", "cancel_join_request", "admit_join_requests", "update_waiting_setting", "handle_commit", "defer_commit", "process_proposal", "proposal_timer", "settle_captions", "admit_agent", "remove_agent"}
INVARIANTS
  TypeOK
  DeadlockNeedsSuspect
PROPERTIES
  CallsReturn
CHECK_DEADLOCK FALSE
