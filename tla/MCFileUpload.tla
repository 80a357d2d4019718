---------------------------- MODULE MCFileUpload ----------------------------
(* Two or three files for two chats. *)
EXTENDS FileUpload

CONSTANTS file1, file2, file3, url1, url2, url3, alice, bob

MCIds == FileIds \cup {Url[f] : f \in FileIds}
MCUrl == [f \in FileIds |-> IF f = file1 THEN url1
                            ELSE IF f = file2 THEN url2 ELSE url3]
MCTimes == {1}
MCFileSize == [f \in FileIds |-> IF f = file1 THEN 3 ELSE 0]

=============================================================================
