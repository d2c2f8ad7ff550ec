---------------------------- MODULE MCServePolicy ----------------------------
EXTENDS ServePolicy

k == [word |-> "k", padded |-> FALSE]
padded == [word |-> "k", padded |-> TRUE]
other == [word |-> "other", padded |-> FALSE]

unset == [form |-> "unset", items |-> {}]
csv(items) == [form |-> "csv", items |-> items]
list(items) == [form |-> "list", items |-> items]

open == [api_key |-> NoKey, allowed_source_types |-> unset,
         allowed_target_types |-> unset, allowed_ocr_presets |-> unset,
         allowed_image_export_modes |-> unset, max_document_timeout |-> 2,
         max_images_scale |-> 2, max_sources_per_request |-> 1,
         allow_custom_vlm_config |-> FALSE, artifact_storage_enabled |-> FALSE]

\* Every target allowlist with and without storage, and one deployment for
\* each of the other settings.
MCDeployments ==
    {[open EXCEPT !.allowed_target_types = t, !.artifact_storage_enabled = a] :
        t \in {unset, csv({}), list({}), csv({"typo"}), csv({"zip"}),
               list({"inbody", "zip"}), csv({"presigned_url", "inbody"}),
               list({"presigned_url", "s3"})},
        a \in BOOLEAN}
    \cup {[open EXCEPT !.allowed_source_types = s] :
            s \in {csv({"http"}), list({"file", "s3"}), list({})}}
    \cup {[open EXCEPT !.api_key = key] : key \in {k, padded}}
    \cup {[open EXCEPT !.max_document_timeout = 0],
          [open EXCEPT !.max_sources_per_request = 2,
                       !.allow_custom_vlm_config = TRUE],
          [open EXCEPT !.allowed_ocr_presets = csv({"easyocr", "typo"})],
          [open EXCEPT !.allowed_image_export_modes = list({"placeholder"})]}

default == [timeout |-> Null, scale |-> 2, preset |-> "auto", mode |-> "embedded",
            vlm |-> FALSE, images |-> TRUE, pages |-> FALSE]

MCOptions ==
    {default,
     [default EXCEPT !.timeout = 0], [default EXCEPT !.timeout = 3],
     [default EXCEPT !.timeout = 1, !.vlm = TRUE],
     [default EXCEPT !.mode = "placeholder", !.pages = TRUE],
     [default EXCEPT !.preset = "easyocr"], [default EXCEPT !.scale = 3]}

MCSourceLists ==
    {<<"http">>, <<"file">>, <<"s3">>, <<"file", "file">>, <<"http", "s3">>,
     <<"http", "google_drive">>}

MCHeaders == {NoKey, k, padded, other}
=============================================================================
