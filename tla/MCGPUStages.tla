---------------------------- MODULE MCGPUStages -----------------------------
EXTENDS GPUStages

CONSTANTS a, l, m, t, u   \* a transcription, two translations, two dubbings

MCKind == [x \in Stages |-> IF x = a THEN "asr" ELSE IF x \in {l, m} THEN "llm" ELSE "tts"]
=============================================================================
